---- MODULE Spec2Model ----
(***************************************************************************)
(* Model of the cycle orchestrator of Tools/agent_team.py: run() and the   *)
(* four stages it sequences (step1_micke_spec, step2_zack_impl,            *)
(* step3_johan_test, step4_micke_review).                                  *)
(*                                                                         *)
(* The Generation Service (_call_claude) is the environment: every call    *)
(* either raises, returns text _parse_json rejects ("unparseable"), or     *)
(* returns a record whose fields are drawn from small sets.                *)
(***************************************************************************)
EXTENDS Integers, Sequences, FiniteSets, TLC

\* ------------------------------------------------------------------ bounds
\* Largest number of clock ticks between two calls of the Result Aggregator.
MaxTicks == 1
\* Largest number of runs started without a feat_id.
MaxRuns == 2
\* Largest number of tokens of prose before and after a record.
MaxProse == 2
\* Largest max_cycles a caller passes (the chat front end passes 2).
MaxCycles == 2
\* Largest number of questions in one implementer response.
MaxQuestions == 4
\* Largest number of amendments the clarifier appends to SPEC.md in a run.
MaxAmend == 1
\* Largest number of TestCases in a Spec Stage response.
MaxTestcases == 2

\* --------------------------------------------------------- program constant
MAX_ZACK_QUESTIONS == 3

VARIABLES
    pc,               \* position in run(): which call is made next
    max_cycles,       \* run() argument
    cycle,            \* loop variable of run(); 0 = not yet bound
    verdict,          \* run() local
    required_changes, \* run() local
    cycle_summaries,  \* run() local
    test_data,        \* run() local: what step3_johan_test returned
    result,           \* the value run() returned (status "none" before)
    log,              \* the events run() itself appends to the run log
    invoked,          \* how often run() has called each stage
    proj,             \* the Workspace: SPEC.md, testdata/, expected/, src/
    spec_raw,         \* step1: kind of the Generation Service response
    is_fix,           \* step2 parameter
    attempt,          \* step2: implementer calls made in this invocation
    spec_md,          \* step2 local copy of SPEC.md
    questions,        \* step2: number of questions in the last response
    qi,               \* step2: position of the next question to ask
    answers,          \* step2: questions answered in this attempt
    prompt,           \* step2: the answers appended to the prompt so far
    micke_calls,      \* clarifier calls issued in this step2 invocation
    spec_updates,     \* "spec_updated" events logged in this invocation
    step2_required_changes, \* step2 parameter required_changes
    data_files,       \* step2: data["files"] of the response, while still read
    zack_log,         \* the events step2 logged in its latest step
    proj_at_call      \* the Workspace as it was when step2 was called

VARIABLES
    art_pc,           \* artifacts of step1: "idle", "step1" or "done"
    testcases,        \* step1: data["testcases"] of the parsed response
    proj_files        \* step1: the files under the Workspace, path and text

VARIABLES
    sb_pc,            \* _run_code: "idle", "call", "returned" or "raised"
    code_path,        \* _run_code argument: the path and whether it exists
    timeout,          \* _run_code argument
    proc,             \* _run_code: what subprocess.run did
    subprocess_runs,  \* _run_code: subprocess.run calls made
    run_result        \* what _run_code returned: (stdout, stderr, success)

VARIABLES
    agg_calls,        \* _write_result_summary: calls made so far
    agg_args,         \* its arguments: feat_id, task, spec_data, cycle_summaries
    agg_files,        \* the files under proj, path and text
    agg_written,      \* per call: the time and RESULT_SUMMARY.md as it left it
    now               \* the wall clock

VARIABLES
    clock,            \* the wall clock in seconds, as run() reads it
    runs,             \* per run: its position, feat_id and what it collected
    projects,         \* the directories under PROJECTS_DIR
    project_files     \* the files in them: directory, path and writing run

VARIABLES
    pj_pc,            \* _parse_json: "idle", "call" or "done"
    pj_text,          \* _parse_json argument text, as a sequence of tokens
    record,           \* the one record the text was built around, <<>> if none
    parsed            \* what _parse_json returned or raised

VARIABLES
    am_pc,            \* chat front end: "idle", "on_message", "handler", "local", "done"
    message,          \* the text of the user message as typed
    am_text,          \* the text argument of _handle_agent_mode
    handler_entered,  \* _handle_agent_mode was called
    session,          \* the session: history and mode
    replies,          \* the texts passed to reply_text, in order
    saves,            \* save_session calls
    saved_history,    \* the history of the session last saved
    planner_calls,    \* plan_next_action calls
    tool_calls,       \* execute_tool calls
    cancel_requested, \* _request_cancel was called
    am_step           \* the step of the local agent loop

VARIABLES
    dt_pc,            \* _extract_direct_tool_call: "idle", "call" or "done"
    dt_text,          \* its text argument, as the sequence of its words
    tools,            \* its tools argument, the registered tools in order
    direct_call       \* what it returned

VARIABLES
    ts_pc,            \* step3_johan_test: "idle", "list", "loop", "run", "done"
    testdata_dir,     \* the files under testdata/, as paths below it
    ts_pending,       \* the testdata files the loop has still to visit
    run_counts,       \* per file under testdata/: how often _run_code ran it
    run_results,      \* the outcomes collected so far, in order
    johan_calls       \* _call_claude calls of the stage

VARIABLES
    feat_pc,          \* _handle_feat: "idle", "called", "running" or "done"
    stages_started,   \* stages agent_team.run has started in the executor
    update_queue,     \* chats whose cancel message waits to be handled
    cancel_flags      \* _cancel_flags: the chats whose flag is set

VARIABLES
    wf_pc,            \* _write_files of one stage: "idle", "called" or "done"
    wf_stage,         \* the stage that writes: "spec", "impl" or "test"
    wf_name,          \* the path or identifier the Generation Service returned
    wf_written        \* where the files were written, as resolved paths

VARIABLES
    rn_pc,            \* runner main(): the next check, or "exited"
    rn_request,       \* what stdin holds
    rn_registry,      \* the tool specifications of tools.json
    rn_out,           \* the envelopes written to stdout
    rn_exit,          \* the exit code of the process (-1 while it runs)
    rn_started        \* tool subprocesses started

artVars   == <<art_pc, testcases, proj_files>>
rnVars    == <<rn_pc, rn_request, rn_registry, rn_out, rn_exit, rn_started>>
wfVars    == <<wf_pc, wf_stage, wf_name, wf_written>>
ftVars    == <<feat_pc, stages_started, update_queue, cancel_flags>>
tsVars    == <<ts_pc, testdata_dir, ts_pending, run_counts, run_results, johan_calls>>
dtVars    == <<dt_pc, dt_text, tools, direct_call>>
amVars    == <<am_pc, message, am_text, handler_entered, session, replies, saves, saved_history, planner_calls, tool_calls, cancel_requested, am_step>>
pjVars    == <<pj_pc, pj_text, record, parsed>>
wsVars    == <<clock, runs, projects, project_files>>
aggVars   == <<agg_calls, agg_args, agg_files, agg_written, now>>
sbVars    == <<sb_pc, code_path, timeout, proc, subprocess_runs, run_result>>
auxVars   == <<artVars, sbVars, aggVars, wsVars, pjVars, amVars, dtVars, tsVars, ftVars, wfVars, rnVars>>

runVars   == <<max_cycles, cycle, verdict, required_changes, cycle_summaries,
               test_data, result, log, invoked>>
step2Vars == <<is_fix, attempt, spec_md, questions, qi, answers, prompt,
               micke_calls, spec_updates,
               step2_required_changes, data_files, zack_log, proj_at_call>>
vars      == <<pc, runVars, proj, spec_raw, step2Vars, auxVars>>

\* ----------------------------------------------------------------- helpers
Min(a, b) == IF a <= b THEN a ELSE b

RECURSIVE Count(_, _)
Count(s, x) ==
    IF s = <<>> THEN 0
    ELSE (IF Head(s) = x THEN 1 ELSE 0) + Count(Tail(s), x)

\* Content of SPEC.md as a sequence of chunks: SpecText is the spec_md text of
\* the Spec Stage, Amendment is one "### Uppdatering" section appended for a
\* clarification answer, ZackText is a content written from the implementer's
\* "files".
SpecText  == 0
Amendment == 1
ZackText  == 2

\* ------------------------------------------------- Generation Service output
\* A TestCase is TRUE when its identifier is a usable file name, FALSE when
\* writing testdata/<id>.json raises (an identifier holding a NUL character,
\* or longer than the file system allows).
RECURSIVE SeqsUpTo(_, _)
SeqsUpTo(S, n) ==
    IF n = 0 THEN {<<>>}
    ELSE SeqsUpTo(S, n - 1) \cup
         {Append(s, x) : s \in {t \in SeqsUpTo(S, n - 1) : Len(t) = n - 1}, x \in S}

TestcaseLists == SeqsUpTo(BOOLEAN, MaxTestcases)

\* Paths an implementer response may name in "files".
Paths == {"src/main.py", "SPEC.md"}

\* Judgments the test operator returns: test_results as pass flags, bugs as
\* severities.
Judgments ==
    { [test_results |-> <<>>,      bugs |-> <<>>,          summary |-> "ok"],
      [test_results |-> <<TRUE>>,  bugs |-> <<>>,          summary |-> "ok"],
      [test_results |-> <<FALSE>>, bugs |-> <<"blocker">>, summary |-> "ok"] }

\* Review records: "missing" stands for a record without the key "verdict".
Reviews ==
    { [verdict |-> "approve",          required_changes |-> <<>>,      summary |-> "ok"],
      [verdict |-> "changes_required", required_changes |-> <<"fix">>, summary |-> "ok"],
      [verdict |-> "changes_required", required_changes |-> <<>>,      summary |-> "ok"],
      [verdict |-> "reject",           required_changes |-> <<"fix">>, summary |-> "ok"],
      [verdict |-> "missing",          required_changes |-> <<"fix">>, summary |-> "ok"] }

\* --------------------------------------------------------------------- run
\* A document that does not exist (_read_file gives "").
NoFile == [tests |-> 0, passed |-> 0, summary |-> ""]

NoResult == [status |-> "none"]

\* _result(feat_id, task, proj, log, "error", error=...)
_result(status) ==
    [status |-> status, cycles |-> 0, bug_files |-> {}, required_changes |-> <<>>,
     error |-> TRUE]

\* The status expression of run()'s return statement.
StatusOf_ApprovedByDefault(v) ==
    IF v = "changes_required" THEN "changes_required"
    ELSE IF v = "pending" THEN "error"
    ELSE "approved"
StatusOf(v) ==
    IF v = "approve" THEN "approved"
    ELSE IF v = "changes_required" THEN "changes_required"
    ELSE "error"

\* for cycle in range(1, max_cycles + 1)
LoopContinues_OffByOne(c, m) == c <= m
LoopContinues(c, m) == c < m

\* is_fix = cycle > 1
IsFix_Never(c) == FALSE
IsFix(c) == c > 1

\* if verdict == "approve": break
AfterReview_NoBreak(v) == "loop"
AfterReview(v) == IF v = "approve" THEN "finish" ELSE "loop"

\* except Exception in step 1: return _result(...)
AfterStep1Error_FallThrough == "loop"
AfterStep1Error == "returned"

\* _setup_project: the Workspace directories, nothing written yet
NoProject ==
    [SPEC |-> <<>>, testdata |-> {}, expected |-> {}, src |-> {}, bugs |-> {},
     TESTREPORT |-> NoFile]

\* The single operations are not running.
ArtIdle == art_pc = "idle" /\ testcases = <<>> /\ proj_files = {}

\* A text stream: what it holds and its length in characters.
Stream(text, len) == [text |-> text, len |-> len]

Message(text) == Stream(text, Len(text))

NoProc == [raises |-> "none", text |-> "", returncode |-> 0,
           stdout |-> Message(""), stderr |-> Message("")]

NoRunResult == [stdout |-> Message(""), stderr |-> Message(""), success |-> FALSE]

SbIdle ==
    /\ sb_pc = "idle"
    /\ code_path = [path |-> "", exists |-> FALSE]
    /\ timeout = 0
    /\ proc = NoProc
    /\ subprocess_runs = 0
    /\ run_result = NoRunResult

NoArgs == [feat_id |-> "", task |-> "", spec_data |-> [testcases |-> <<>>],
           cycle_summaries |-> <<>>]

AggIdle ==
    /\ agg_calls = 0
    /\ agg_args = NoArgs
    /\ agg_files = {}
    /\ agg_written = <<>>
    /\ now = 0

Runs == 1..MaxRuns

NotStarted == [pc |-> "idle", feat_id |-> "", spec_from |-> 0]

WsIdle ==
    /\ clock = 0
    /\ runs = [r \in Runs |-> NotStarted]
    /\ projects = {}
    /\ project_files = {}

NotParsed == [raised |-> "none", value |-> <<>>]

PjIdle == pj_pc = "idle" /\ pj_text = <<>> /\ record = <<>> /\ parsed = NotParsed

AmIdle ==
    /\ am_pc = "idle"
    /\ message = ""
    /\ am_text = ""
    /\ handler_entered = FALSE
    /\ session = [history |-> <<>>, mode |-> "llm"]
    /\ replies = <<>>
    /\ saves = 0
    /\ saved_history = <<>>
    /\ planner_calls = 0
    /\ tool_calls = 0
    /\ cancel_requested = FALSE
    /\ am_step = 0

NoCall == [name |-> "<None>", payload |-> <<>>]

DtIdle == dt_pc = "idle" /\ dt_text = <<>> /\ tools = <<>> /\ direct_call = NoCall

TsIdle ==
    /\ ts_pc = "idle" /\ testdata_dir = {} /\ ts_pending = <<>>
    /\ run_counts = <<>> /\ run_results = <<>> /\ johan_calls = 0

FtIdle ==
    /\ feat_pc = "idle" /\ stages_started = 0 /\ update_queue = {} /\ cancel_flags = {}

\* A path: absolute or not, and its components.
NoPath == [abs |-> FALSE, parts |-> <<>>]

WfIdle ==
    /\ wf_pc = "idle" /\ wf_stage = "none" /\ wf_name = NoPath /\ wf_written = {}

\* No request on stdin.
NoRequest == [raw |-> "none", tool |-> "none", input |-> "none"]

RnIdle ==
    /\ rn_pc = "idle" /\ rn_request = NoRequest /\ rn_registry = {}
    /\ rn_out = <<>> /\ rn_exit = -1 /\ rn_started = 0

AuxIdle == ArtIdle /\ SbIdle /\ AggIdle /\ WsIdle /\ PjIdle /\ AmIdle /\ DtIdle /\ TsIdle /\ FtIdle /\ WfIdle /\ RnIdle

Init ==
    /\ AuxIdle
    /\ pc = "step1"
    /\ max_cycles \in 0..MaxCycles
    /\ cycle = 0
    /\ verdict = "pending"
    /\ required_changes = <<>>
    /\ cycle_summaries = <<>>
    /\ test_data = [test_results |-> <<>>, bugs |-> <<>>, summary |-> ""]
    /\ result = NoResult
    /\ log = <<"start", "project_created">>
    /\ invoked = [step1 |-> 0, step2 |-> 0, step3 |-> 0, step4 |-> 0]
    /\ proj = NoProject
    /\ spec_raw = "none"
    /\ is_fix = FALSE
    /\ attempt = 0
    /\ spec_md = <<>>
    /\ questions = 0
    /\ qi = 0
    /\ answers = <<>>
    /\ prompt = <<>>
    /\ micke_calls = 0
    /\ spec_updates = 0
    /\ step2_required_changes = <<>>
    /\ data_files = {}
    /\ zack_log = <<>>
    /\ proj_at_call = NoProject

\* ------------------------------------------------------------------ step 1
\* The TestCases whose artifacts _write_files has written when it stops:
\* files_to_write is written in insertion order (SPEC.md, TESTPLAN.md, DOD.md,
\* then testdata/<id>.json and expected/<id>.json per TestCase) and the first
\* unusable identifier raises out of the loop.
RECURSIVE WrittenPrefix(_)
WrittenPrefix(tcs) ==
    IF tcs = <<>> \/ ~Head(tcs) THEN 0 ELSE 1 + WrittenPrefix(Tail(tcs))

Step1Failed(raw) ==
    /\ spec_raw' = raw
    /\ log' = Append(log, "step1_error")
    /\ pc' = AfterStep1Error
    /\ result' = IF AfterStep1Error = "returned" THEN _result("error") ELSE result

\* _call_claude raises, or _parse_json raises on its text: nothing is written.
Step1NoRecord ==
    /\ pc = "step1"
    /\ \E raw \in {"raise", "unparseable"} : Step1Failed(raw)
    /\ invoked' = [invoked EXCEPT !.step1 = @ + 1]
    /\ UNCHANGED <<max_cycles, cycle, verdict, required_changes, cycle_summaries,
                   test_data, proj, step2Vars>>

\* A record is parsed and _write_files runs; it raises at the first TestCase
\* whose identifier is no file name, after the earlier files were written.
Step1Record ==
    /\ pc = "step1"
    /\ \E tcs \in TestcaseLists :
         LET n == WrittenPrefix(tcs) IN
         /\ proj' = [proj EXCEPT !.SPEC = <<SpecText>>,
                                 !.testdata = 1..n,
                                 !.expected = 1..n]
         /\ IF n < Len(tcs)
               THEN Step1Failed("parsed")
               ELSE /\ spec_raw' = "parsed"
                    /\ pc' = "loop"
                    /\ UNCHANGED <<log, result>>
    /\ invoked' = [invoked EXCEPT !.step1 = @ + 1]
    /\ UNCHANGED <<max_cycles, cycle, verdict, required_changes, cycle_summaries,
                   test_data, step2Vars>>

\* ---------------------------------------------------------------- the loop
\* for cycle in range(1, max_cycles + 1): the next cycle starts with the call
\* of step2_zack_impl, which reads SPEC.md and builds its prompt.
LoopHead ==
    /\ pc = "loop"
    /\ IF LoopContinues(cycle, max_cycles)
          THEN /\ cycle' = cycle + 1
               /\ is_fix' = IsFix(cycle + 1)
               /\ invoked' = [invoked EXCEPT !.step2 = @ + 1]
               /\ spec_md' = proj.SPEC
               /\ attempt' = 0
               /\ questions' = 0
               /\ qi' = 0
               /\ answers' = <<>>
               /\ prompt' = <<>>
               /\ micke_calls' = 0
               /\ spec_updates' = 0
               /\ step2_required_changes' = required_changes
               /\ data_files' = {}
               /\ zack_log' = <<>>
               /\ proj_at_call' = proj
               /\ pc' = "zack_call"
          ELSE /\ pc' = "finish"
               /\ UNCHANGED <<cycle, invoked, step2Vars>>
    /\ UNCHANGED <<max_cycles, verdict, required_changes, cycle_summaries,
                   test_data, result, log, proj, spec_raw>>

\* A stage raised: run() logs step<N>_error and breaks out of the loop.
StageRaised_Continues(event) ==
    /\ log' = Append(log, event)
    /\ pc' = "loop"

StageRaised(event) ==
    /\ log' = Append(log, event)
    /\ pc' = "finish"

\* ------------------------------------------------------------------ step 2
\* if questions and not is_fix
AsksMicke_IgnoresMode(nq, fix) == nq > 0
AsksMicke(nq, fix) == nq > 0 /\ ~fix

\* questions[:MAX_ZACK_QUESTIONS]: how many of the nq questions are asked
AskLimit_Short(nq) == Min(nq, MAX_ZACK_QUESTIONS - 1)
AskLimit(nq) == Min(nq, MAX_ZACK_QUESTIONS)

\* for attempt in range(MAX_ZACK_QUESTIONS + 1)
MoreAttempts_OneMore(a) == a < MAX_ZACK_QUESTIONS + 2
MoreAttempts(a) == a < MAX_ZACK_QUESTIONS + 1

\* _write_files(proj, files) for the implementer's files
WriteFiles_SourceOnly(p, files) ==
    [p EXCEPT !.src = @ \cup (files \cap {"src/main.py"})]

WriteFiles(p, files) ==
    [p EXCEPT !.src = @ \cup (files \cap {"src/main.py"}),
              !.SPEC = IF "SPEC.md" \in files THEN <<ZackText>> ELSE @]

\* The SPEC.md section of the implementer's prompt: the f-string is formatted
\* once, before the attempt loop, from the spec_md read when the stage was
\* called; later attempts only append the answers to the prompt.
PromptSpec == proj_at_call.SPEC

\* new.startswith(old), for SPEC.md contents
IsPrefix(old, new) == Len(old) <= Len(new) /\ SubSeq(new, 1, Len(old)) = old

\* except Exception around _parse_json in step 2: break, warning, return to
\* run(), whose next call is step3_johan_test
AfterParseError_Raises == "finish"

AfterParseError == "step3"

\* The implementer's response did not parse and the stage has returned.
ParseErrorEnd ==
    zack_log = <<"zack_impl_attempt", "zack_parse_error", "zack_impl_warning">>

\* spec_md += "### Uppdatering ..." with the answer's spec_update
Amended_Replaces(md) == <<Amendment>>

Amended(md) == Append(md, Amendment)

\* The attempt loop ran out: the last attempt's questions were answered and
\* the warning was logged.
Exhausted ==
    /\ pc = "step3"
    /\ zack_log # <<>>
    /\ zack_log[1] = "micke_answer"
    /\ zack_log[Len(zack_log)] = "zack_impl_warning"

\* Every path of files holds the implementer's content in the Workspace.
Persisted(files) ==
    /\ "src/main.py" \in files => "src/main.py" \in proj.src
    /\ "SPEC.md" \in files => proj.SPEC = <<ZackText>>

\* One implementer call of the attempt loop and what follows its response up
\* to the next Generation Service call or the end of the stage.
ZackCall ==
    /\ pc = "zack_call"
    /\ attempt' = attempt + 1
    /\ \/ \* _call_claude raises: the exception leaves step2_zack_impl
          /\ StageRaised("step2_error")
          /\ zack_log' = <<"zack_impl_attempt">>
          /\ UNCHANGED <<proj, questions, qi, answers, data_files>>
       \/ \* _parse_json raises: zack_parse_error, break, warning, return
          /\ pc' = AfterParseError
          /\ zack_log' = <<"zack_impl_attempt", "zack_parse_error", "zack_impl_warning">>
          /\ UNCHANGED <<log, proj, questions, qi, answers, data_files>>
       \/ \E nq \in 0..MaxQuestions, files \in SUBSET Paths :
            /\ questions' = nq
            /\ data_files' = files
            /\ IF AsksMicke(nq, is_fix)
                  THEN /\ answers' = <<>>
                       /\ qi' = 1
                       /\ pc' = "micke_answer"
                       /\ zack_log' = <<"zack_impl_attempt", "zack_question">>
                       /\ UNCHANGED proj
                  ELSE /\ proj' = IF files # {} THEN WriteFiles(proj, files) ELSE proj
                       /\ pc' = "step3"
                       /\ zack_log' = IF files # {}
                                         THEN <<"zack_impl_attempt", "zack_impl_done">>
                                         ELSE <<"zack_impl_attempt", "zack_no_output",
                                                "zack_impl_warning">>
                       /\ UNCHANGED <<qi, answers>>
            /\ UNCHANGED log
    /\ UNCHANGED <<max_cycles, cycle, verdict, required_changes, cycle_summaries,
                   test_data, result, invoked, spec_raw, is_fix, spec_md, prompt,
                   micke_calls, spec_updates, step2_required_changes, proj_at_call>>

\* One clarifier call for question qi of the current response.  After the last
\* asked question the answers are appended to the prompt and the attempt loop
\* continues; when it is exhausted the stage returns with a warning.
MickeAnswer ==
    /\ pc = "micke_answer"
    /\ qi <= AskLimit(questions)
    /\ micke_calls' = micke_calls + 1
    /\ \/ \* _call_claude raises: the exception leaves step2_zack_impl
          /\ StageRaised("step2_error")
          /\ zack_log' = <<>>
          /\ UNCHANGED <<proj, spec_md, qi, answers, prompt, spec_updates>>
       \/ \E update \in BOOLEAN :
            \* update: the answer parsed and carries a non-empty spec_update;
            \* otherwise it parsed without one, or did not parse and the raw
            \* text became the answer
            /\ update => spec_updates < MaxAmend
            /\ IF update
                  THEN /\ spec_md' = Amended(spec_md)
                       /\ proj' = [proj EXCEPT !.SPEC = Amended(spec_md)]
                       /\ spec_updates' = spec_updates + 1
                  ELSE UNCHANGED <<spec_md, proj, spec_updates>>
            /\ answers' = Append(answers, qi)
            /\ IF qi + 1 <= AskLimit(questions)
                  THEN /\ qi' = qi + 1
                       /\ pc' = "micke_answer"
                       /\ UNCHANGED prompt
                  ELSE /\ qi' = qi + 1
                       /\ prompt' = prompt \o Append(answers, qi)
                       /\ pc' = IF MoreAttempts(attempt) THEN "zack_call" ELSE "step3"
            /\ zack_log' = <<"micke_answer">>
                              \o (IF update THEN <<"spec_updated">> ELSE <<>>)
                              \o (IF qi + 1 <= AskLimit(questions) THEN <<"zack_question">>
                                  ELSE IF MoreAttempts(attempt) THEN <<>>
                                  ELSE <<"zack_impl_warning">>)
            /\ UNCHANGED log
    /\ data_files' = {}
    /\ UNCHANGED <<max_cycles, cycle, verdict, required_changes, cycle_summaries,
                   test_data, result, invoked, spec_raw, is_fix, attempt, questions,
                   step2_required_changes, proj_at_call>>

\* ------------------------------------------------------------------ step 3
\* except Exception in step3_johan_test: an unparseable judgment
ParseErrorJudgment_FailsATest ==
    [test_results |-> <<FALSE>>, bugs |-> <<>>, summary |-> "Parse-fel"]
ParseErrorJudgment ==
    [test_results |-> <<>>, bugs |-> <<>>, summary |-> "Parse-fel"]

\* TESTREPORT.md: the counts line and the summary section of report_lines
TestReport(data) ==
    [tests   |-> Len(data.test_results),
     passed  |-> Count(data.test_results, TRUE),
     summary |-> data.summary]

\* bugs/{bug_id}.md: the judgment's bugs carry the ids BUG-001, BUG-002, ...
BugFile(i) == "BUG-00" \o ToString(i) \o ".md"

\* The files the loop over bugs writes: one per bug, none removed.
BugFiles(bugs) == {BugFile(i) : i \in 1..Len(bugs)}

\* step2_zack_impl has returned: its parameters and locals no longer exist.
Step2FrameGone ==
    /\ is_fix' = FALSE
    /\ attempt' = 0
    /\ spec_md' = <<>>
    /\ questions' = 0
    /\ qi' = 0
    /\ answers' = <<>>
    /\ prompt' = <<>>
    /\ micke_calls' = 0
    /\ spec_updates' = 0
    /\ step2_required_changes' = <<>>
    /\ data_files' = {}
    /\ zack_log' = <<>>
    /\ proj_at_call' = NoProject

Step3 ==
    /\ pc = "step3"
    /\ invoked' = [invoked EXCEPT !.step3 = @ + 1]
    /\ \/ /\ StageRaised("step3_error")
          /\ UNCHANGED <<test_data, proj>>
       \/ /\ test_data' \in Judgments \cup {ParseErrorJudgment}
          /\ proj' = [proj EXCEPT !.TESTREPORT = TestReport(test_data'),
                                   !.bugs = @ \cup BugFiles(test_data'.bugs)]
          /\ pc' = "step4"
          /\ UNCHANGED log
    /\ Step2FrameGone
    /\ UNCHANGED <<max_cycles, cycle, verdict, required_changes, cycle_summaries,
                   result, spec_raw>>

\* ------------------------------------------------------------------ step 4
\* except Exception in step4_micke_review: an unparseable review
ReviewFallback_Approve ==
    [verdict |-> "approve", required_changes |-> <<>>,
     summary |-> "Review-parse-fel"]
ReviewFallback ==
    [verdict |-> "changes_required", required_changes |-> <<"Kontrollera output-format">>,
     summary |-> "Review-parse-fel"]

\* review_data.get("verdict", "changes_required")
VerdictOf(r) == IF r.verdict = "missing" THEN "changes_required" ELSE r.verdict

Passed(trs) == Count(trs, TRUE)

Step4 ==
    /\ pc = "step4"
    /\ invoked' = [invoked EXCEPT !.step4 = @ + 1]
    /\ \/ /\ StageRaised("step4_error")
          /\ UNCHANGED <<verdict, required_changes, cycle_summaries>>
       \/ \E r \in Reviews \cup {ReviewFallback} :
            /\ verdict' = VerdictOf(r)
            /\ required_changes' = r.required_changes
            /\ cycle_summaries' = Append(cycle_summaries,
                 [cycle            |-> cycle,
                  passed           |-> Passed(test_data.test_results),
                  total            |-> Len(test_data.test_results),
                  bugs             |-> test_data.bugs,
                  test_results     |-> test_data.test_results,
                  verdict          |-> VerdictOf(r),
                  required_changes |-> r.required_changes,
                  summary          |-> r.summary])
            /\ pc' = AfterReview(VerdictOf(r))
            /\ UNCHANGED log
    /\ UNCHANGED <<max_cycles, cycle, test_data, result, proj, spec_raw, step2Vars>>

\* -------------------------------------------------------- after the loop
\* _log(log, "done", ..., cycles=cycle) reads the loop variable: when the loop
\* body never ran it is unbound and the read raises UnboundLocalError out of
\* run(); otherwise the RunResult is built and returned.
Finish ==
    /\ pc = "finish"
    /\ IF cycle = 0
          THEN /\ pc' = "raised"
               /\ UNCHANGED <<log, result>>
          ELSE /\ log' = Append(log, "done")
               /\ result' = [status           |-> StatusOf(verdict),
                             cycles           |-> cycle,
                             bug_files        |-> proj.bugs,
                             required_changes |-> required_changes,
                             cycle_summaries  |-> cycle_summaries]
               /\ pc' = "returned"
    /\ UNCHANGED <<max_cycles, cycle, verdict, required_changes, cycle_summaries,
                   test_data, invoked, proj, spec_raw, step2Vars>>

Next ==
    \/ Step1NoRecord /\ UNCHANGED auxVars
    \/ Step1Record /\ UNCHANGED auxVars
    \/ LoopHead /\ UNCHANGED auxVars
    \/ ZackCall /\ UNCHANGED auxVars
    \/ MickeAnswer /\ UNCHANGED auxVars
    \/ Step3 /\ UNCHANGED auxVars
    \/ Step4 /\ UNCHANGED auxVars
    \/ Finish /\ UNCHANGED auxVars

Spec == Init /\ [][Next]_vars

\* No run() is in progress: the specifications of the single operations hold
\* the variables of run() at these values.
RunIdle ==
    /\ pc = "idle"
    /\ max_cycles = 0
    /\ cycle = 0
    /\ verdict = "pending"
    /\ required_changes = <<>>
    /\ cycle_summaries = <<>>
    /\ test_data = [test_results |-> <<>>, bugs |-> <<>>, summary |-> ""]
    /\ result = NoResult
    /\ log = <<>>
    /\ invoked = [step1 |-> 0, step2 |-> 0, step3 |-> 0, step4 |-> 0]
    /\ proj = NoProject
    /\ spec_raw = "none"
    /\ is_fix = FALSE
    /\ attempt = 0
    /\ spec_md = <<>>
    /\ questions = 0
    /\ qi = 0
    /\ answers = <<>>
    /\ prompt = <<>>
    /\ micke_calls = 0
    /\ spec_updates = 0
    /\ step2_required_changes = <<>>
    /\ data_files = {}
    /\ zack_log = <<>>
    /\ proj_at_call = NoProject

RunUnchanged == UNCHANGED <<pc, runVars, proj, spec_raw, step2Vars>>

\* ================================================ step1: TestCase artifacts
\* A JSON value of the parsed response: its kind and, for a string, its
\* characters, for every other kind its JSON literal.
Payloads ==
    { [kind |-> "object",  val |-> "{\"s\": \"ab\"}"],
      [kind |-> "list",    val |-> "[1]"],
      [kind |-> "string",  val |-> "ab"],
      [kind |-> "string",  val |-> "1"],
      [kind |-> "number",  val |-> "1"],
      [kind |-> "boolean", val |-> "true"],
      [kind |-> "null",    val |-> "null"] }

\* tc.get("id", "TC-XXX"): the identifier a TestCase record carries, if any.
NoId == "<absent>"
tc_id(tc) == IF tc.id = NoId THEN "TC-XXX" ELSE tc.id

TestCases == [id : {"TC-001", "TC-002", NoId},
              input : Payloads, expected_output : Payloads]

\* The JSON document of a value (json.dumps; json.loads accepts exactly these).
JsonText(p) == IF p.kind = "string" THEN "\"" \o p.val \o "\"" ELSE p.val

json_dumps(p) == JsonText(p)

ParseError == [kind |-> "error", val |-> "JSONDecodeError"]

json_loads(text) ==
    IF \E p \in Payloads : JsonText(p) = text
    THEN CHOOSE p \in Payloads : JsonText(p) = text
    ELSE ParseError

\* str(content) of a value that is neither dict nor list.
str(p) ==
    CASE p.kind = "boolean" -> (IF p.val = "true" THEN "True" ELSE "False")
      [] p.kind = "null"    -> "None"
      [] OTHER              -> p.val

\* files_to_write[key] = value of a Python dict kept as a sequence of entries
\* in insertion order: a key already present keeps its place, gets the value.
DictSet(d, key, value) ==
    IF \E i \in DOMAIN d : d[i].key = key
    THEN [i \in DOMAIN d |->
            IF d[i].key = key THEN [key |-> key, value |-> value] ELSE d[i]]
    ELSE Append(d, [key |-> key, value |-> value])

Markdown(text) == [kind |-> "string", val |-> text]

RECURSIVE files_to_write(_, _)
files_to_write(d, tcs) ==
    IF tcs = <<>> THEN d
    ELSE LET tc == Head(tcs)
             d1 == DictSet(d, <<"testdata", tc_id(tc)>>, tc.input)
             d2 == DictSet(d1, <<"expected", tc_id(tc)>>, tc.expected_output)
         IN  files_to_write(d2, Tail(tcs))

\* The text one iteration of _write_files puts in the target.
FileText(content) ==
    IF content.kind \in {"object", "list"} THEN json_dumps(content)
                                           ELSE str(content)

RECURSIVE _write_files(_, _)
_write_files(fs, d) ==
    IF d = <<>> THEN fs
    ELSE LET e == Head(d)
             kept == { f \in fs : f.path # e.key }
         IN  _write_files(kept \cup {[path |-> e.key, text |-> FileText(e.value)]},
                          Tail(d))

\* step1_micke_spec from the parsed response to its return.
Step1Artifacts ==
    /\ art_pc = "step1"
    /\ proj_files' = _write_files(proj_files,
                      files_to_write(<< [key |-> <<"", "SPEC.md">>, value |-> Markdown("spec")],
                                        [key |-> <<"", "TESTPLAN.md">>, value |-> Markdown("plan")],
                                        [key |-> <<"", "DOD.md">>, value |-> Markdown("dod")] >>,
                                     testcases))
    /\ art_pc' = "done"
    /\ UNCHANGED testcases
    /\ RunUnchanged
    /\ UNCHANGED <<sbVars, aggVars, wsVars, pjVars, amVars, dtVars, tsVars, ftVars, wfVars, rnVars>>

ArtInit ==
    /\ RunIdle
    /\ RnIdle
    /\ WfIdle
    /\ FtIdle
    /\ TsIdle
    /\ DtIdle
    /\ AmIdle
    /\ PjIdle
    /\ SbIdle
    /\ AggIdle
    /\ WsIdle
    /\ art_pc = "step1"
    /\ testcases \in SeqsUpTo(TestCases, MaxTestcases)
    /\ proj_files = {}

ArtNext == Step1Artifacts

SpecArtifacts == ArtInit /\ [][ArtNext]_vars

\* What reading the artifact at path back gives, compared with a payload: the
\* parsed JSON value, or for a string payload the text itself.
ReadsBack(path, payload) ==
    \E f \in proj_files :
        /\ f.path = path
        /\ \/ json_loads(f.text) = payload
           \/ payload.kind = "string" /\ f.text = payload.val

\* ======================================================= the Sandbox Runner
CODE_RUN_TIMEOUT == 30
StdoutLimit == 4000
StderrLimit == 2000

\* proc.stdout[:n]
Slice(stream, n) == Stream(stream.text, Min(stream.len, n))

\* The exception classes subprocess.run raises here and their base classes.
Bases ==
    [TimeoutExpired     |-> "SubprocessError",
     SubprocessError    |-> "Exception",
     OSError            |-> "Exception",
     UnicodeDecodeError |-> "ValueError",
     AttributeError     |-> "Exception",
     ValueError         |-> "Exception",
     Exception          |-> "BaseException",
     BaseException      |-> "object"]

RECURSIVE issubclass(_, _)
issubclass(cls, base) ==
    IF cls = base THEN TRUE
    ELSE IF cls = "object" THEN FALSE
    ELSE issubclass(Bases[cls], base)

\* The except clause that handles an exception of class cls, in the order of
\* the try statement; "propagate" when none does.
ExceptClause_OnlyTimeout(cls) ==
    IF issubclass(cls, "TimeoutExpired") THEN "timeout" ELSE "propagate"

ExceptClause(cls) ==
    IF issubclass(cls, "TimeoutExpired") THEN "timeout"
    ELSE IF issubclass(cls, "Exception") THEN "exception"
    ELSE "propagate"

AbsentMessage(path) == "Filen " \o path \o " hittades inte"

TimeoutMessage(t) == "TIMEOUT > " \o ToString(t) \o "s"

CodePaths == {"FEAT-1/src/main.py", "FEAT-2/src/main.py"}

Timeouts == {1, CODE_RUN_TIMEOUT}

\* str(e) of the exceptions other than TimeoutExpired: the interpreter is
\* missing, the output is not UTF-8, stdin_data is not a str.
LaunchFailures ==
    { [raises |-> "OSError",
       text |-> "[Errno 2] No such file or directory: '/nonexistent/python'"],
      [raises |-> "UnicodeDecodeError",
       text |-> "'utf-8' codec can't decode byte 0xff in position 0: invalid start byte"],
      [raises |-> "AttributeError",
       text |-> "'bytes' object has no attribute 'encode'"] }

\* What the process wrote: nothing, a text within the limit, one beyond it.
Outputs(limit) ==
    { Message(""), Stream("Traceback", limit), Stream("Traceback", limit + 1) }

\* A negative returncode is the signal that ended the process.
ReturnCodes == {-9, 0, 1, 2}

\* Every way subprocess.run can end.
ProcOutcomes ==
    { [raises |-> "none", text |-> "", returncode |-> rc, stdout |-> out, stderr |-> err] :
        rc \in ReturnCodes, out \in Outputs(StdoutLimit), err \in Outputs(StderrLimit) }
    \cup { [raises |-> "TimeoutExpired", text |-> "", returncode |-> 0,
            stdout |-> Message(""), stderr |-> Message("")] }
    \cup { [raises |-> f.raises, text |-> f.text, returncode |-> 0,
            stdout |-> Message(""), stderr |-> Message("")] : f \in LaunchFailures }

Failed(text) == [stdout |-> Message(""), stderr |-> Message(text), success |-> FALSE]

\* _run_code from its call to its return.
RunCode ==
    /\ sb_pc = "call"
    /\ IF ~code_path.exists
       THEN /\ run_result' = Failed(AbsentMessage(code_path.path))
            /\ sb_pc' = "returned"
            /\ UNCHANGED <<proc, subprocess_runs>>
       ELSE \E p \in ProcOutcomes :
            /\ proc' = p
            /\ subprocess_runs' = subprocess_runs + 1
            /\ IF p.raises = "none"
               THEN /\ run_result' = [stdout  |-> Slice(p.stdout, StdoutLimit),
                                      stderr  |-> Slice(p.stderr, StderrLimit),
                                      success |-> (p.returncode = 0)]
                    /\ sb_pc' = "returned"
               ELSE CASE ExceptClause(p.raises) = "timeout" ->
                           /\ run_result' = Failed(TimeoutMessage(timeout))
                           /\ sb_pc' = "returned"
                      [] ExceptClause(p.raises) = "exception" ->
                           /\ run_result' = Failed(p.text)
                           /\ sb_pc' = "returned"
                      [] OTHER ->
                           /\ sb_pc' = "raised"
                           /\ UNCHANGED run_result
    /\ UNCHANGED <<code_path, timeout>>
    /\ RunUnchanged
    /\ UNCHANGED <<artVars, aggVars, wsVars, pjVars, amVars, dtVars, tsVars, ftVars, wfVars, rnVars>>

SbInit ==
    /\ RunIdle
    /\ RnIdle
    /\ WfIdle
    /\ FtIdle
    /\ TsIdle
    /\ DtIdle
    /\ AmIdle
    /\ PjIdle
    /\ ArtIdle
    /\ AggIdle
    /\ WsIdle
    /\ sb_pc = "call"
    /\ code_path \in [path : CodePaths, exists : BOOLEAN]
    /\ timeout \in Timeouts
    /\ proc = NoProc
    /\ subprocess_runs = 0
    /\ run_result = NoRunResult

SbNext == RunCode

SpecSandbox == SbInit /\ [][SbNext]_vars

\* The failure of a finished _run_code call: "absent", "timeout", "launch",
\* or "none" when the process ran to its end.
Cause ==
    IF ~code_path.exists THEN "absent"
    ELSE IF proc.raises = "TimeoutExpired" THEN "timeout"
    ELSE IF proc.raises # "none" THEN "launch"
    ELSE "none"

\* The messages a failure of each kind can give, over all arguments.
MessagesOf(cause) ==
    CASE cause = "absent"  -> { AbsentMessage(p) : p \in CodePaths }
      [] cause = "timeout" -> { TimeoutMessage(t) : t \in Timeouts }
      [] cause = "launch"  -> { f.text : f \in LaunchFailures }

\* ===================================================== the Result Aggregator
\* d.get(key) of a dict kept by DictSet; None when the key is absent.
DictHas(d, key) == \E i \in DOMAIN d : d[i].key = key

DictGet(d, key) == (CHOOSE e \in {d[i] : i \in DOMAIN d} : e.key = key).value

\* tc.get("id", "?")
SummaryId(tc) == IF tc.id = NoId THEN "?" ELSE tc.id

\* cycle_summaries[-1]
FinalSummary_First(cycle_sums) == cycle_sums[1]

FinalSummary(cycle_sums) == cycle_sums[Len(cycle_sums)]

\* {t.get("tc_id"): t for t in final.get("test_results", [])}
RECURSIVE final_results(_, _)
final_results(d, trs) ==
    IF trs = <<>> THEN d
    ELSE final_results(DictSet(d, Head(trs).tc_id, Head(trs)), Tail(trs))

\* The mark of a TestCase line: "pass" and "fail" stand for the check mark
\* and the cross the code writes.
Sym(results, id) ==
    IF DictHas(results, id)
    THEN (IF DictGet(results, id).pass THEN "pass" ELSE "fail")
    ELSE "?"

TitleLine_Dated(feat_id) == <<"# Resultatjamforelse", feat_id, ToString(now)>>

TitleLine(feat_id) == <<"# Resultatjamforelse", feat_id>>

RECURSIVE TestCaseLines(_, _)
TestCaseLines(tcs, results) ==
    IF tcs = <<>> THEN <<>>
    ELSE << <<"- testcase", Sym(results, SummaryId(Head(tcs))), SummaryId(Head(tcs))>> >>
         \o TestCaseLines(Tail(tcs), results)

AcLines(mark, acs) == [i \in DOMAIN acs |-> <<"- ac", mark, acs[i]>>]

BugsLine(bugs) ==
    IF bugs = <<>> THEN <<"- Buggar: inga">>
    ELSE <<"- Buggar", ToString(Len(bugs)), ToString(Count(bugs, "blocker"))>>

RECURSIVE CycleLines(_)
CycleLines(cycle_sums) ==
    IF cycle_sums = <<>> THEN <<>>
    ELSE LET cs == Head(cycle_sums)
         IN  << <<"">>,
                <<"### Cykel", ToString(cs.cycle)>>,
                <<"- Tester", ToString(cs.passed), ToString(cs.total)>>,
                BugsLine(cs.bugs),
                <<"- Micke", IF cs.verdict = "approve" THEN "Godkand"
                                                       ELSE "Changes Required">> >>
             \o [i \in DOMAIN cs.required_changes |-> <<"  ->", cs.required_changes[i]>>]
             \o CycleLines(Tail(cycle_sums))

\* The lines _write_result_summary joins into RESULT_SUMMARY.md.
ResultSummaryLines(a) ==
    LET final == FinalSummary(a.cycle_summaries)
        tcs   == a.spec_data.testcases
    IN  << TitleLine(a.feat_id), <<"">>, <<"## Uppgift">>, <<a.task>>, <<"">>,
           <<"## Slutresultat",
             IF final.verdict = "approve" THEN "GODKAND" ELSE "EJ GODKAND",
             ToString(Len(a.cycle_summaries))>> >>
        \o (IF tcs # <<>>
            THEN << <<"">>, <<"## Testfall">> >>
                 \o TestCaseLines(tcs, final_results(<<>>, final.test_results))
            ELSE <<>>)
        \o (IF final.approved_ac # <<>> \/ final.failed_ac # <<>>
            THEN << <<"">>, <<"## Acceptance Criteria">> >>
                 \o AcLines("pass", final.approved_ac)
                 \o AcLines("fail", final.failed_ac)
            ELSE <<>>)
        \o << <<"">>, <<"## Per cykel">> >>
        \o CycleLines(a.cycle_summaries)

SummaryPath == <<"", "RESULT_SUMMARY.md">>

FileAt(fs, path) == (CHOOSE f \in fs : f.path = path).text

\* _write_result_summary, called by run() or by any later caller.
WriteResultSummary ==
    /\ agg_args # NoArgs
    /\ agg_calls < 2
    /\ agg_calls' = agg_calls + 1
    /\ agg_files' = _write_files(agg_files,
                        << [key |-> SummaryPath,
                            value |-> Markdown(ResultSummaryLines(agg_args))] >>)
    /\ agg_written' = Append(agg_written,
                             [at |-> now, text |-> FileAt(agg_files', SummaryPath)])
    /\ UNCHANGED <<agg_args, now>>
    /\ RunUnchanged
    /\ UNCHANGED <<artVars, sbVars, wsVars, pjVars, amVars, dtVars, tsVars, ftVars, wfVars, rnVars>>

\* Time passes.
Tick ==
    /\ agg_args # NoArgs
    /\ now < MaxTicks
    /\ now' = now + 1
    /\ UNCHANGED <<agg_calls, agg_args, agg_files, agg_written>>
    /\ RunUnchanged
    /\ UNCHANGED <<artVars, sbVars, wsVars, pjVars, amVars, dtVars, tsVars, ftVars, wfVars, rnVars>>

\* The TestResults of a judgment, as run() copies them into a CycleSummary.
TestResults(ids) == SeqsUpTo([tc_id : ids, pass : BOOLEAN], MaxTestcases)

\* The CycleSummary run() appends after a review (cycle is filled in below).
CycleSummary(trs, review) ==
    [cycle |-> 0,
     passed |-> Cardinality({i \in DOMAIN trs : trs[i].pass}),
     total |-> Len(trs),
     bugs |-> IF review.verdict = "approve" THEN <<>> ELSE <<"blocker">>,
     test_results |-> trs,
     verdict |-> review.verdict,
     approved_ac |-> review.approved_ac,
     failed_ac |-> review.failed_ac,
     required_changes |-> review.required_changes]

AggReviews ==
    { [verdict |-> "approve", approved_ac |-> <<"AC-1">>, failed_ac |-> <<>>,
       required_changes |-> <<>>],
      [verdict |-> "changes_required", approved_ac |-> <<>>, failed_ac |-> <<"AC-1">>,
       required_changes |-> <<"fix">>] }

\* Cycles before the last one ended with a review that did not approve.
EarlierSummaries ==
    { CycleSummary(trs, [verdict |-> "changes_required", approved_ac |-> <<>>,
                         failed_ac |-> <<>>, required_changes |-> <<"fix">>]) :
        trs \in {<<>>, <<[tc_id |-> "TC-001", pass |-> TRUE]>>} }

LastSummaries ==
    { CycleSummary(trs, r) : trs \in TestResults({"TC-001", "TC-002"}), r \in AggReviews }

Numbered(cycle_sums) ==
    [i \in DOMAIN cycle_sums |-> [cycle_sums[i] EXCEPT !.cycle = i]]

AggInit ==
    /\ RunIdle
    /\ RnIdle
    /\ WfIdle
    /\ FtIdle
    /\ TsIdle
    /\ DtIdle
    /\ AmIdle
    /\ PjIdle
    /\ ArtIdle
    /\ SbIdle
    /\ WsIdle
    /\ agg_calls = 0
    /\ \E tcs \in SeqsUpTo([id : {"TC-001", "TC-002", NoId}], MaxTestcases),
          earlier \in SeqsUpTo(EarlierSummaries, MaxCycles - 1),
          last \in LastSummaries :
            agg_args = [feat_id |-> "FEAT-1", task |-> "task",
                        spec_data |-> [testcases |-> tcs],
                        cycle_summaries |-> Numbered(Append(earlier, last))]
    /\ agg_files = {[path |-> <<"", "TESTREPORT.md">>, text |-> <<"report">>]}
    /\ agg_written = <<>>
    /\ now = 0

AggNext == WriteResultSummary \/ Tick

SpecAggregator == AggInit /\ [][AggNext]_vars

\* ================================================== Workspaces of the runs
\* f"FEAT-{ts}" with ts = datetime.now().strftime("%Y%m%d%H%M%S"): the
\* identifier has the resolution of one second.
FeatId(seconds) == "FEAT-" \o ToString(seconds)

\* run() called without a feat_id: by _handle_feat on an executor thread, or
\* by a process started in tool mode or from the shell.
StartRun(r) ==
    /\ runs[r].pc = "idle"
    /\ runs' = [runs EXCEPT ![r] = [pc |-> "setup", feat_id |-> FeatId(clock),
                                    spec_from |-> 0]]
    /\ UNCHANGED <<clock, projects, project_files>>
    /\ RunUnchanged
    /\ UNCHANGED <<artVars, sbVars, aggVars, pjVars, amVars, dtVars, tsVars, ftVars, wfVars, rnVars>>

\* _setup_project: mkdir(exist_ok=True) accepts a directory that is there.
SetupProject(r) ==
    /\ runs[r].pc = "setup"
    /\ runs' = [runs EXCEPT ![r].pc = "step1"]
    /\ projects' = projects \cup {runs[r].feat_id}
    /\ UNCHANGED <<clock, project_files>>
    /\ RunUnchanged
    /\ UNCHANGED <<artVars, sbVars, aggVars, pjVars, amVars, dtVars, tsVars, ftVars, wfVars, rnVars>>

\* The stages of the run write their artifacts into its directory.
WriteArtifacts(r) ==
    /\ runs[r].pc = "step1"
    /\ runs' = [runs EXCEPT ![r].pc = "collect"]
    /\ project_files' =
         { f \in project_files : ~(f.dir = runs[r].feat_id /\ f.path = "SPEC.md") }
         \cup {[dir |-> runs[r].feat_id, path |-> "SPEC.md", writer |-> r]}
    /\ UNCHANGED <<clock, projects>>
    /\ RunUnchanged
    /\ UNCHANGED <<artVars, sbVars, aggVars, pjVars, amVars, dtVars, tsVars, ftVars, wfVars, rnVars>>

\* run() reads the artifacts back into its result.
CollectArtifacts(r) ==
    /\ runs[r].pc = "collect"
    /\ \E f \in project_files :
         /\ f.dir = runs[r].feat_id /\ f.path = "SPEC.md"
         /\ runs' = [runs EXCEPT ![r].pc = "returned", ![r].spec_from = f.writer]
    /\ UNCHANGED <<clock, projects, project_files>>
    /\ RunUnchanged
    /\ UNCHANGED <<artVars, sbVars, aggVars, pjVars, amVars, dtVars, tsVars, ftVars, wfVars, rnVars>>

ClockTick ==
    /\ clock < MaxTicks
    /\ clock' = clock + 1
    /\ UNCHANGED <<runs, projects, project_files>>
    /\ RunUnchanged
    /\ UNCHANGED <<artVars, sbVars, aggVars, pjVars, amVars, dtVars, tsVars, ftVars, wfVars, rnVars>>

WsInit ==
    /\ RunIdle
    /\ RnIdle
    /\ WfIdle
    /\ FtIdle
    /\ TsIdle
    /\ DtIdle
    /\ AmIdle
    /\ PjIdle
    /\ ArtIdle
    /\ SbIdle
    /\ AggIdle
    /\ WsIdle

WsNext ==
    \/ \E r \in Runs : StartRun(r)
    \/ \E r \in Runs : SetupProject(r)
    \/ \E r \in Runs : WriteArtifacts(r)
    \/ \E r \in Runs : CollectArtifacts(r)
    \/ ClockTick

SpecWorkspaces == WsInit /\ [][WsNext]_vars

\* ================================================= extraction of the record
\* A Generation Service text is a sequence of tokens: the braces, "k" for a
\* member with a scalar value, "k:" for the key of a member whose value is the
\* record that follows, "w" for a word of prose, Fence for three backticks
\* (with the optional word json and line break after them).
Fence == "fence"

\* s.find(tok) and s.rfind(tok), counted from 1; 0 when tok does not occur.
find(s, tok) ==
    IF \E i \in DOMAIN s : s[i] = tok
    THEN CHOOSE i \in DOMAIN s : s[i] = tok /\ \A j \in 1..(i - 1) : s[j] # tok
    ELSE 0

rfind(s, tok) ==
    IF \E i \in DOMAIN s : s[i] = tok
    THEN CHOOSE i \in DOMAIN s : s[i] = tok /\ \A j \in (i + 1)..Len(s) : s[j] # tok
    ELSE 0

\* Open braces minus closed braces among the first n tokens.
Depth(toks, n) ==
    Cardinality({i \in 1..n : toks[i] = "{"}) - Cardinality({i \in 1..n : toks[i] = "}"})

\* json.loads accepts toks: one record from the first token to the last.
WellFormed(toks) ==
    /\ Len(toks) >= 2
    /\ toks[1] = "{"
    /\ toks[Len(toks)] = "}"
    /\ \A i \in DOMAIN toks : toks[i] \in {"{", "}", "k", "k:"}
    /\ \A n \in 1..(Len(toks) - 1) : Depth(toks, n) > 0
    /\ Depth(toks, Len(toks)) = 0
    /\ \A i \in 2..Len(toks) : toks[i] = "{" => toks[i - 1] = "k:"
    /\ \A i \in DOMAIN toks : toks[i] = "k:" => (i < Len(toks) /\ toks[i + 1] = "{")

\* The re.search for a fenced block: the text between the first fence and the
\* next one, when there are two.
Unwrapped(s) ==
    LET first == find(s, Fence)
        rest  == SubSeq(s, first + 1, Len(s))
    IN  IF first # 0 /\ find(rest, Fence) # 0
        THEN SubSeq(rest, 1, find(rest, Fence) - 1)
        ELSE s

_parse_json(t) ==
    LET s     == Unwrapped(t)
        start == find(s, "{")
        end   == rfind(s, "}")
    IN  IF start = 0 \/ end = 0
        THEN [raised |-> "ValueError", value |-> <<>>]
        ELSE IF WellFormed(SubSeq(s, start, end))
             THEN [raised |-> "none", value |-> SubSeq(s, start, end)]
             ELSE [raised |-> "JSONDecodeError", value |-> <<>>]

ContainsRecord(toks) ==
    \E i, j \in DOMAIN toks : i < j /\ WellFormed(SubSeq(toks, i, j))

\* Prose: words and brace characters that do not make up a record.
Prose == { p \in SeqsUpTo({"w", "{", "}"}, MaxProse) : ~ContainsRecord(p) }

Records == { <<"{", "}">>, <<"{", "k", "}">>, <<"{", "k:", "{", "k", "}", "}">> }

\* The text around rec: prose, the record bare or in a fenced block, prose.
TextAround(pre, rec, fenced, post) ==
    pre \o (IF fenced THEN <<Fence>> \o rec \o <<Fence>> ELSE rec) \o post

ParseJson ==
    /\ pj_pc = "call"
    /\ parsed' = _parse_json(pj_text)
    /\ pj_pc' = "done"
    /\ UNCHANGED <<pj_text, record>>
    /\ RunUnchanged
    /\ UNCHANGED <<artVars, sbVars, aggVars, wsVars, amVars, dtVars, tsVars, ftVars, wfVars, rnVars>>

PjInit ==
    /\ RunIdle
    /\ RnIdle
    /\ WfIdle
    /\ FtIdle
    /\ TsIdle
    /\ DtIdle
    /\ AmIdle
    /\ ArtIdle
    /\ SbIdle
    /\ AggIdle
    /\ WsIdle
    /\ pj_pc = "call"
    /\ parsed = NotParsed
    /\ \E pre \in Prose, post \in Prose :
         \/ \E rec \in Records, fenced \in BOOLEAN :
              /\ record = rec
              /\ pj_text = TextAround(pre, rec, fenced, post)
         \/ /\ record = <<>>
            /\ pj_text = pre \o post
            /\ ~ContainsRecord(pre \o post)

PjNext == ParseJson

SpecParseJson == PjInit /\ [][PjNext]_vars

\* ===================================================== the chat front end
MAX_STEPS == 8
HistoryLimit == 40

NEGATIVE_WORDS == {"nej", "no", "stop", "avbryt", "cancel"}

CANCEL_WORDS == {"avbryt", "avbryta", "stoppa", "stop", "cancel", "stanna", "halt"}

StopMessage == "Okej, da stannar vi har."

\* The user messages: the negative words as typed, and other texts.
Texts == {"nej", " NEJ ", "no", "Stop", "avbryt", "cancel", "nej tack", "ja",
          "run script"}

\* text.strip()
Strip(t) == IF t = " NEJ " THEN "NEJ" ELSE t

\* text.lower()
Lower(t) ==
    CASE t = "NEJ"   -> "nej"
      [] t = " NEJ " -> " nej "
      [] t = "Stop"  -> "stop"
      [] t = "Start" -> "start"
      [] t = "Web_Inspector" -> "web_inspector"
      [] OTHER       -> t

_is_negative_CaseSensitive(t) == Strip(t) \in NEGATIVE_WORDS

_is_negative(t) == Lower(Strip(t)) \in NEGATIVE_WORDS

\* any(trigger in t for trigger in AGENT_TRIGGER_WORDS)
should_activate_agent_mode(t) == Lower(Strip(t)) = "run script"

Entry(role, content) == [role |-> role, content |-> content]

\* history[-40:]
LastEntries(h) ==
    IF Len(h) > HistoryLimit THEN SubSeq(h, Len(h) - HistoryLimit + 1, Len(h)) ELSE h

OldHistory(n) == [i \in 1..n |-> Entry("user", "old")]

amFrame ==
    /\ RunUnchanged
    /\ UNCHANGED <<artVars, sbVars, aggVars, wsVars, pjVars, dtVars, tsVars, ftVars, wfVars, rnVars>>

\* on_message up to the call of the handler of the mode (the workflow
\* triggers between the cancel words and the modes match none of Texts).
OnMessage ==
    /\ am_pc = "on_message"
    /\ LET t == Strip(message)
       IN  IF Lower(Strip(t)) \in CANCEL_WORDS
           THEN /\ cancel_requested' = TRUE
                /\ replies' = Append(replies, "Avbrytningssignal skickad")
                /\ am_pc' = "done"
                /\ UNCHANGED <<am_text, handler_entered>>
           ELSE /\ am_text' = t
                /\ UNCHANGED cancel_requested
                /\ IF session.mode = "llm" /\ should_activate_agent_mode(t)
                   THEN /\ replies' = Append(replies, "Jag hamtar/beraknar detta.")
                        /\ am_pc' = "handler"
                        /\ handler_entered' = TRUE
                   ELSE /\ UNCHANGED replies
                        /\ am_pc' = IF session.mode = "agent" THEN "handler" ELSE "llm"
                        /\ handler_entered' = (session.mode = "agent")
    /\ UNCHANGED <<message, session, saves, saved_history, planner_calls,
                   tool_calls, am_step>>
    /\ amFrame

\* _handle_agent_mode up to its return or its call of _handle_local_agent_mode
\* (which starts by recording the user message).
HandleAgentMode ==
    /\ am_pc = "handler"
    /\ IF _is_negative(am_text)
       THEN LET h == LastEntries(session.history
                                   \o << Entry("user", am_text),
                                         Entry("assistant", StopMessage) >>)
            IN  /\ session' = [session EXCEPT !.history = h]
                /\ saves' = saves + 1
                /\ saved_history' = h
                /\ replies' = Append(replies, StopMessage)
                /\ am_pc' = "done"
       ELSE /\ session' = [session EXCEPT
                             !.history = Append(session.history, Entry("user", am_text))]
            /\ am_pc' = "local"
            /\ UNCHANGED <<saves, saved_history, replies>>
    /\ UNCHANGED <<message, am_text, handler_entered, planner_calls, tool_calls,
                   cancel_requested, am_step>>
    /\ amFrame

\* The direct call of _handle_local_agent_mode: of Texts only "run script" has
\* a run intent, and it names a tool when the registry holds one called script.
DirectToolCall ==
    /\ am_pc = "local"
    /\ am_step = 0
    /\ Lower(am_text) = "run script"
    /\ LET h == LastEntries(Append(session.history, Entry("observation", "obs")))
       IN  /\ session' = [session EXCEPT !.history = h]
           /\ saved_history' = h
    /\ tool_calls' = tool_calls + 1
    /\ saves' = saves + 1
    /\ replies' = replies \o <<"Steg", "Observation">>
    /\ am_pc' = "done"
    /\ UNCHANGED <<message, am_text, handler_entered, planner_calls, cancel_requested,
                   am_step>>
    /\ amFrame

\* One iteration of the loop of _handle_local_agent_mode when there is no
\* direct call: the planner's action is the environment's choice.
PlanStep ==
    /\ am_pc = "local"
    /\ am_step < MAX_STEPS
    /\ am_step' = am_step + 1
    /\ planner_calls' = planner_calls + 1
    /\ \E action \in {"ask", "final", "other", "run"} :
         LET planned == Append(session.history, Entry("assistant", action))
         IN  IF action = "run"
             THEN LET h == LastEntries(Append(planned, Entry("observation", "obs")))
                  IN  /\ tool_calls' = tool_calls + 1
                      /\ session' = [session EXCEPT !.history = h]
                      /\ saves' = saves + 2
                      /\ saved_history' = h
                      /\ replies' = replies \o <<"Steg", "Observation">>
                      /\ am_pc' = "local"
             ELSE /\ UNCHANGED tool_calls
                  /\ session' = [session EXCEPT !.history = planned]
                  /\ saves' = saves + 2
                  /\ saved_history' = planned
                  /\ replies' = Append(replies, action)
                  /\ am_pc' = "done"
    /\ UNCHANGED <<message, am_text, handler_entered, cancel_requested>>
    /\ amFrame

MaxStepsReached ==
    /\ am_pc = "local"
    /\ am_step = MAX_STEPS
    /\ replies' = Append(replies, "Jag nadde max steg utan final.")
    /\ am_pc' = "done"
    /\ UNCHANGED <<message, am_text, handler_entered, session, saves, saved_history,
                   planner_calls, tool_calls, cancel_requested, am_step>>
    /\ amFrame

\* _handle_llm_mode
HandleLlmMode ==
    /\ am_pc = "llm"
    /\ LET h == LastEntries(session.history
                              \o <<Entry("user", am_text), Entry("assistant", "answer")>>)
       IN  /\ session' = [session EXCEPT !.history = h]
           /\ saved_history' = h
    /\ saves' = saves + 1
    /\ replies' = Append(replies, "answer")
    /\ am_pc' = "done"
    /\ UNCHANGED <<message, am_text, handler_entered, planner_calls, tool_calls,
                   cancel_requested, am_step>>
    /\ amFrame

\* A message arrives through on_message, or _handle_agent_mode is called with
\* the text as it is.
AmInit ==
    /\ RunIdle
    /\ RnIdle
    /\ WfIdle
    /\ FtIdle
    /\ TsIdle
    /\ DtIdle
    /\ ArtIdle
    /\ SbIdle
    /\ AggIdle
    /\ WsIdle
    /\ PjIdle
    /\ message \in Texts
    /\ \E n \in {0, HistoryLimit - 1, HistoryLimit}, mode \in {"agent", "llm"} :
         session = [history |-> OldHistory(n), mode |-> mode]
    /\ \/ am_pc = "on_message" /\ am_text = "" /\ handler_entered = FALSE
       \/ am_pc = "handler" /\ am_text = message /\ handler_entered = TRUE
    /\ replies = <<>>
    /\ saves = 0
    /\ saved_history = <<>>
    /\ planner_calls = 0
    /\ tool_calls = 0
    /\ cancel_requested = FALSE
    /\ am_step = 0

AmNext ==
    \/ OnMessage
    \/ HandleAgentMode
    \/ DirectToolCall
    \/ PlanStep
    \/ MaxStepsReached
    \/ HandleLlmMode

SpecAgentMode == AmInit /\ [][AmNext]_vars

\* The user messages that are a negative word, whatever their case and the
\* whitespace around them.
NegativeMessages == {"nej", " NEJ ", "no", "Stop", "avbryt", "cancel"}

\* The effects of the stop branch: one reply, no planner, no tool, the user
\* message and the stop message last in the history, the session saved.
StoppedWith(user_text) ==
    /\ replies = <<StopMessage>>
    /\ planner_calls = 0
    /\ tool_calls = 0
    /\ Len(session.history) >= 2
    /\ Len(session.history) <= HistoryLimit
    /\ session.history[Len(session.history)] = Entry("assistant", StopMessage)
    /\ session.history[Len(session.history) - 1] = Entry("user", user_text)
    /\ saves = 1
    /\ saved_history = session.history

\* ===================================================== the direct tool call
\* The letters of the lower-case words of the texts, of the tool names and of
\* the words the code looks for ("kor" stands for the word with o-umlaut).
Letters(w) ==
    CASE w = "kor" -> <<"k", "o", "r">>
      [] w = "run" -> <<"r", "u", "n">>
      [] w = "start" -> <<"s", "t", "a", "r", "t">>
      [] w = "skr" -> <<"s", "k", "r">>
      [] w = "visa" -> <<"v", "i", "s", "a">>
      [] w = "browser" -> <<"b", "r", "o", "w", "s", "e", "r">>
      [] w = "webblasare" -> <<"w", "e", "b", "b", "l", "a", "s", "a", "r", "e">>
      [] w = "headless=false" -> <<"h", "e", "a", "d", "l", "e", "s", "s", "=", "f", "a", "l", "s", "e">>
      [] w = "headless=true" -> <<"h", "e", "a", "d", "l", "e", "s", "s", "=", "t", "r", "u", "e">>
      [] w = "spara" -> <<"s", "p", "a", "r", "a">>
      [] w = "fil" -> <<"f", "i", "l">>
      [] w = "write_file=true" -> <<"w", "r", "i", "t", "e", "_", "f", "i", "l", "e", "=", "t", "r", "u", "e">>
      [] w = "write_file=false" -> <<"w", "r", "i", "t", "e", "_", "f", "i", "l", "e", "=", "f", "a", "l", "s", "e">>
      [] w = "cars_lookup" -> <<"c", "a", "r", "s", "_", "l", "o", "o", "k", "u", "p">>
      [] w = "file_sync" -> <<"f", "i", "l", "e", "_", "s", "y", "n", "c">>
      [] w = "web_inspector" -> <<"w", "e", "b", "_", "i", "n", "s", "p", "e", "c", "t", "o", "r">>
      [] w = "hej" -> <<"h", "e", "j">>
      [] OTHER -> <<>>

\* w in t, for two words
Within(w, t) ==
    \E i \in 1..(Len(Letters(t)) - Len(Letters(w)) + 1) :
        SubSeq(Letters(t), i, i + Len(Letters(w)) - 1) = Letters(w)

\* w in t, for a text t given as the sequence of its words: no w the code
\* looks for holds a space, so it lies within one word of the text
In(w, t) == \E k \in DOMAIN t : Within(w, t[k])

\* (text or "").strip().lower()
LowerText(ws) == [k \in DOMAIN ws |-> Lower(ws[k])]

_has_run_intent(t) == t # <<>> /\ \E w \in {"kor", "run", "start", "skr"} : In(w, t)

Property(key, has_default, default) ==
    [key |-> key, has_default |-> has_default, default |-> default]

RECURSIVE _build_default_input(_)
_build_default_input(properties) ==
    IF properties = <<>> THEN <<>>
    ELSE LET prop == properties[Len(properties)]
             defaults == _build_default_input(SubSeq(properties, 1, Len(properties) - 1))
         IN  IF prop.has_default THEN DictSet(defaults, prop.key, prop.default)
                                 ELSE defaults

AsksToShow(t) == \E w \in {"visa", "browser", "webblasare", "headless=false"} : In(w, t)

AsksToSave(t) == \E w \in {"spara", "fil", "write_file=true"} : In(w, t)

direct_input_ExplicitFirst(t, defaults) ==
    LET d1 == IF DictHas(defaults, "headless") /\ In("headless=true", t)
              THEN DictSet(defaults, "headless", TRUE) ELSE defaults
        d2 == IF DictHas(d1, "headless") /\ AsksToShow(t)
              THEN DictSet(d1, "headless", FALSE) ELSE d1
        d3 == IF DictHas(d2, "write_file") /\ In("write_file=false", t)
              THEN DictSet(d2, "write_file", FALSE) ELSE d2
    IN  IF DictHas(d3, "write_file") /\ AsksToSave(t)
        THEN DictSet(d3, "write_file", TRUE) ELSE d3

\* the overrides of the defaults, in the order of the code
direct_input(t, defaults) ==
    LET d1 == IF DictHas(defaults, "headless") /\ AsksToShow(t)
              THEN DictSet(defaults, "headless", FALSE) ELSE defaults
        d2 == IF DictHas(d1, "headless") /\ In("headless=true", t)
              THEN DictSet(d1, "headless", TRUE) ELSE d1
        d3 == IF DictHas(d2, "write_file") /\ AsksToSave(t)
              THEN DictSet(d2, "write_file", TRUE) ELSE d2
    IN  IF DictHas(d3, "write_file") /\ In("write_file=false", t)
        THEN DictSet(d3, "write_file", FALSE) ELSE d3

\* for tool in tools: ... return name, direct_input   /   return None
RECURSIVE first_named(_, _, _)
first_named(t, ts, i) ==
    IF i > Len(ts) THEN NoCall
    ELSE LET name == ts[i].name
         IN  IF name = "" THEN first_named(t, ts, i + 1)
             ELSE IF In(Lower(name), t)
                  THEN [name    |-> name,
                        payload |-> direct_input(t, _build_default_input(ts[i].properties))]
                  ELSE first_named(t, ts, i + 1)

_extract_direct_tool_call(txt, ts) ==
    LET t == LowerText(txt)
    IN  IF t = <<>> \/ ~_has_run_intent(t) THEN NoCall ELSE first_named(t, ts, 1)

\* The texts are the selections of words of this phrase, in its order.
Phrase == << "kor", "Start", "cars_lookup", "file_sync", "web_inspector", "visa",
             "spara", "headless=true", "write_file=false", "hej" >>

RECURSIVE Selection(_, _)
Selection(S, i) ==
    IF i > Len(Phrase) THEN <<>>
    ELSE IF i \in S THEN <<Phrase[i]>> \o Selection(S, i + 1)
                    ELSE Selection(S, i + 1)

\* The registered tools: with both properties defaulted, with a property that
\* declares no default, with a name in capitals and no default, without name.
Registered ==
    { [name |-> "cars_lookup",
       properties |-> << Property("headless", TRUE, TRUE),
                         Property("write_file", TRUE, FALSE) >>],
      [name |-> "file_sync",
       properties |-> << Property("write_file", TRUE, TRUE),
                         Property("url", FALSE, FALSE),
                         Property("headless", TRUE, FALSE) >>],
      [name |-> "Web_Inspector",
       properties |-> << Property("headless", FALSE, FALSE) >>],
      [name |-> "",
       properties |-> << Property("write_file", TRUE, FALSE) >>] }

Registries ==
    {<<>>} \cup {<<a>> : a \in Registered}
           \cup {<<p[1], p[2]>> : p \in {q \in Registered \X Registered : q[1] # q[2]}}

ExtractDirectToolCall ==
    /\ dt_pc = "call"
    /\ direct_call' = _extract_direct_tool_call(dt_text, tools)
    /\ dt_pc' = "done"
    /\ UNCHANGED <<dt_text, tools>>
    /\ RunUnchanged
    /\ UNCHANGED <<artVars, sbVars, aggVars, wsVars, pjVars, amVars, tsVars, ftVars, wfVars, rnVars>>

DtInit ==
    /\ RunIdle
    /\ RnIdle
    /\ WfIdle
    /\ FtIdle
    /\ TsIdle
    /\ ArtIdle
    /\ SbIdle
    /\ AggIdle
    /\ WsIdle
    /\ PjIdle
    /\ AmIdle
    /\ dt_pc = "call"
    /\ \E S \in SUBSET (1..Len(Phrase)) : dt_text = Selection(S, 1)
    /\ tools \in Registries
    /\ direct_call = NoCall

DtNext == ExtractDirectToolCall

SpecDirectToolCall == DtInit /\ [][DtNext]_vars

\* the registered tools the text names
Named(t) == {i \in DOMAIN tools : tools[i].name # "" /\ In(Lower(tools[i].name), t)}

\* the value the payload holds for a property that declares a default
PayloadValue(prop, t) ==
    IF prop.key = "headless"
    THEN IF In("headless=true", t) THEN TRUE
         ELSE IF AsksToShow(t) THEN FALSE ELSE prop.default
    ELSE IF prop.key = "write_file"
    THEN IF In("write_file=false", t) THEN FALSE
         ELSE IF AsksToSave(t) THEN TRUE ELSE prop.default
    ELSE prop.default

Defaulted(tool) ==
    {tool.properties[k] : k \in {j \in DOMAIN tool.properties : tool.properties[j].has_default}}

\* ============================================================ the Test Stage
\* The files step1 may have written under testdata/, in the order of sorted():
\* testdata/<id>.json for the TestCase ids TC-001, TC-002, TC-003 and
\* sub/TC-004.
TestdataPaths ==
    << [dir |-> "",    name |-> "TC-001.json"],
       [dir |-> "",    name |-> "TC-002.json"],
       [dir |-> "",    name |-> "TC-003.json"],
       [dir |-> "sub", name |-> "TC-004.json"] >>

\* _list_files(proj, "testdata"): the entries of the directory itself that
\* are files, sorted
RECURSIVE _list_files(_, _)
_list_files(d, i) ==
    IF i > Len(TestdataPaths) THEN <<>>
    ELSE IF TestdataPaths[i] \in d /\ TestdataPaths[i].dir = ""
         THEN <<TestdataPaths[i]>> \o _list_files(d, i + 1)
         ELSE _list_files(d, i + 1)

tsFrame ==
    /\ RunUnchanged
    /\ UNCHANGED <<artVars, sbVars, aggVars, wsVars, pjVars, amVars, dtVars, ftVars, wfVars, rnVars>>

ListTestdata ==
    /\ ts_pc = "list"
    /\ ts_pending' = _list_files(testdata_dir, 1)
    /\ ts_pc' = "loop"
    /\ UNCHANGED <<testdata_dir, run_counts, run_results, johan_calls>>
    /\ tsFrame

\* for tc_id, td_content in testdata.items(): _run_code(main_py, ...) is called
CallRunCode ==
    /\ ts_pc = "loop"
    /\ ts_pending # <<>>
    /\ run_counts' = [run_counts EXCEPT ![Head(ts_pending)] = @ + 1]
    /\ ts_pc' = "run"
    /\ UNCHANGED <<testdata_dir, ts_pending, run_results, johan_calls>>
    /\ tsFrame

\* _run_code returns its tuple, whatever the run did
RunCodeReturns ==
    /\ ts_pc = "run"
    /\ \E outcome \in {"success", "failed", "timeout"} :
         run_results' = Append(run_results,
                               [tc |-> Head(ts_pending).name, outcome |-> outcome])
    /\ ts_pending' = Tail(ts_pending)
    /\ ts_pc' = "loop"
    /\ UNCHANGED <<testdata_dir, run_counts, johan_calls>>
    /\ tsFrame

\* raw = _call_claude(JOHAN_TEST_SYSTEM, prompt): one call, answered or raising
JohanJudges ==
    /\ ts_pc = "loop"
    /\ ts_pending = <<>>
    /\ johan_calls' = johan_calls + 1
    /\ ts_pc' = "done"
    /\ UNCHANGED <<testdata_dir, ts_pending, run_counts, run_results>>
    /\ tsFrame

TsInit ==
    /\ RunIdle
    /\ RnIdle
    /\ WfIdle
    /\ FtIdle
    /\ ArtIdle
    /\ SbIdle
    /\ AggIdle
    /\ WsIdle
    /\ PjIdle
    /\ AmIdle
    /\ DtIdle
    /\ ts_pc = "list"
    /\ testdata_dir \in SUBSET {TestdataPaths[i] : i \in DOMAIN TestdataPaths}
    /\ ts_pending = <<>>
    /\ run_counts = [f \in testdata_dir |-> 0]
    /\ run_results = <<>>
    /\ johan_calls = 0

TsNext ==
    \/ ListTestdata
    \/ CallRunCode
    \/ RunCodeReturns
    \/ JohanJudges

SpecTestStage == TsInit /\ [][TsNext]_vars

\* ==================================================== a feature run by chat
\* agent_team.run(task=task, url=url, max_cycles=2, progress_cb=progress_cb)
FEAT_MAX_CYCLES == 2

\* the Spec Stage and three stages per cycle
FeatStages == 1 + 3 * FEAT_MAX_CYCLES

Chats == {1, 2}

\* the chat whose message started the feature run
FeatChat == 1

ftFrame ==
    /\ RunUnchanged
    /\ UNCHANGED <<artVars, sbVars, aggVars, wsVars, pjVars, amVars, dtVars, tsVars, wfVars, rnVars>>

\* _handle_feat hands agent_team.run to the executor and awaits it
FeatStarts ==
    /\ feat_pc = "called"
    /\ feat_pc' = "running"
    /\ UNCHANGED <<stages_started, update_queue, cancel_flags>>
    /\ ftFrame

\* run() starts its next stage: neither run() nor progress_cb reads
\* _cancel_flags
StageStarts ==
    /\ feat_pc = "running"
    /\ stages_started < FeatStages
    /\ stages_started' = stages_started + 1
    /\ UNCHANGED <<feat_pc, update_queue, cancel_flags>>
    /\ ftFrame

\* run() returns (approved, exhausted or failed) and _handle_feat replies
RunReturns ==
    /\ feat_pc = "running"
    /\ stages_started >= 1
    /\ feat_pc' = "done"
    /\ UNCHANGED <<stages_started, update_queue, cancel_flags>>
    /\ ftFrame

\* a user sends a cancel word or /avbryt while the run is in progress
UserSendsCancel(c) ==
    /\ feat_pc = "running"
    /\ c \notin update_queue
    /\ update_queue' = update_queue \cup {c}
    /\ UNCHANGED <<feat_pc, stages_started, cancel_flags>>
    /\ ftFrame

\* on_message / avbryt_cmd: _request_cancel(chat_id).  The Application is
\* built without concurrent updates, so the update is handled once the
\* handler of the earlier update, _handle_feat, has returned.
HandleCancel(c) ==
    /\ feat_pc = "done"
    /\ c \in update_queue
    /\ update_queue' = update_queue \ {c}
    /\ cancel_flags' = cancel_flags \cup {c}
    /\ UNCHANGED <<feat_pc, stages_started>>
    /\ ftFrame

FtInit ==
    /\ RunIdle
    /\ RnIdle
    /\ WfIdle
    /\ ArtIdle
    /\ SbIdle
    /\ AggIdle
    /\ WsIdle
    /\ PjIdle
    /\ AmIdle
    /\ DtIdle
    /\ TsIdle
    /\ feat_pc = "called"
    /\ stages_started = 0
    /\ update_queue = {}
    /\ cancel_flags \in SUBSET (Chats \ {FeatChat})

FtNext ==
    \/ FeatStarts
    \/ StageStarts
    \/ RunReturns
    \/ \E c \in Chats : UserSendsCancel(c)
    \/ \E c \in Chats : HandleCancel(c)

SpecFeatRun == FtInit /\ [][FtNext]_vars

\* ================================================= the path of a written file
\* Longest path or identifier, in components.
MaxParts == 3

\* PROJECTS_DIR / feat_id, the Workspace of the run
Proj == <<"projects", "FEAT">>

\* _setup_project: the directories of a new Workspace
ProjDirs == {"testdata", "expected", "src", "tests", "bugs"}

Components == {"..", "src", "main"}

Names == {[abs |-> a, parts |-> p] : a \in BOOLEAN, p \in SeqsUpTo(Components, MaxParts)}

\* f"{dir}/{id}{ext}": the text of the identifier between a directory and an
\* extension; the extension ends up in the last component and a leading "/"
\* of the identifier is a doubled separator
Interpolated(dir, id, ext) ==
    [abs   |-> FALSE,
     parts |-> <<dir>> \o (IF id.parts = <<>> THEN <<ext>>
                           ELSE SubSeq(id.parts, 1, Len(id.parts) - 1)
                                \o <<id.parts[Len(id.parts)] \o ext>>)]

\* target = proj / rel_path: an absolute rel_path replaces proj
Join(dir, rel) == IF rel.abs THEN rel.parts ELSE dir \o rel.parts

\* The file system follows ".." to the parent directory (the root is its
\* own parent).
RECURSIVE Resolved(_, _)
Resolved(done, rest) ==
    IF rest = <<>> THEN done
    ELSE IF Head(rest) = ".."
         THEN Resolved(IF done = <<>> THEN <<>> ELSE SubSeq(done, 1, Len(done) - 1),
                       Tail(rest))
         ELSE Resolved(Append(done, Head(rest)), Tail(rest))

\* target names a directory: write_text raises and nothing is written. A
\* path that ends in ".." is one (mkdir has made its parents), and so are the
\* Workspace, its directories and the directories above it.
IsDirectory(rel) ==
    LET target == Join(Proj, rel)
        at == Resolved(<<>>, target)
    IN  \/ target = <<>>
        \/ target[Len(target)] = ".."
        \/ IsPrefix(at, Proj)
        \/ \E d \in ProjDirs : at = Append(Proj, d)

\* One iteration of _write_files: where the text lands.
Written(rel) ==
    IF IsDirectory(rel) THEN {} ELSE {Resolved(<<>>, Join(Proj, rel))}

wfFrame ==
    /\ RunUnchanged
    /\ UNCHANGED <<artVars, sbVars, aggVars, wsVars, pjVars, amVars, dtVars, tsVars, ftVars, rnVars>>

\* step1_micke_spec: testdata/{tc_id}.json and expected/{tc_id}.json
Step1Writes ==
    /\ wf_pc = "called" /\ wf_stage = "spec"
    /\ wf_written' = Written(Interpolated("testdata", wf_name, ".json"))
                     \cup Written(Interpolated("expected", wf_name, ".json"))
    /\ wf_pc' = "done"
    /\ UNCHANGED <<wf_stage, wf_name>>
    /\ wfFrame

\* step2_zack_impl: _write_files(proj, files) with the keys as returned
Step2Writes ==
    /\ wf_pc = "called" /\ wf_stage = "impl"
    /\ wf_written' = Written(wf_name)
    /\ wf_pc' = "done"
    /\ UNCHANGED <<wf_stage, wf_name>>
    /\ wfFrame

\* step3_johan_test: bugs/{bug_id}.md
Step3Writes ==
    /\ wf_pc = "called" /\ wf_stage = "test"
    /\ wf_written' = Written(Interpolated("bugs", wf_name, ".md"))
    /\ wf_pc' = "done"
    /\ UNCHANGED <<wf_stage, wf_name>>
    /\ wfFrame

WfInit ==
    /\ RunIdle
    /\ RnIdle
    /\ ArtIdle /\ SbIdle /\ AggIdle /\ WsIdle /\ PjIdle /\ AmIdle /\ DtIdle
    /\ TsIdle /\ FtIdle
    /\ wf_pc = "called"
    /\ wf_stage \in {"spec", "impl", "test"}
    /\ wf_name \in Names
    /\ wf_written = {}

WfNext == Step1Writes \/ Step2Writes \/ Step3Writes

SpecWritePath == WfInit /\ [][WfNext]_vars

\* ============================================================ the tool runner
\* A tool name holding a lone surrogate (the JSON text "\ud800" parses to
\* one): a string that the encoding of stdout rejects.
Surrogate == "ud800"

\* data.get("tool"): NoTool when the key is missing
NoTool == "none"

ToolNames == {NoTool, "", "nope", "echo", "noschema", "noentry", "bare", Surrogate}

\* The requests: no text, text that is not JSON, JSON that is not an object,
\* and objects with a tool and an input that is valid against the schema of
\* the tool, invalid, or not an object.
Requests ==
    { [raw |-> r, tool |-> NoTool, input |-> "none"] : r \in {"empty", "not_json", "not_object"} }
    \cup { [raw |-> "object", tool |-> t, input |-> i] :
             t \in ToolNames, i \in {"valid", "invalid", "not_object"} }

\* tools.json: the file is absent, or holds these specifications
Tools ==
    { [name |-> "echo",     input_schema |-> TRUE,  entrypoint |-> TRUE],
      [name |-> "noschema", input_schema |-> FALSE, entrypoint |-> TRUE],
      [name |-> "noentry",  input_schema |-> TRUE,  entrypoint |-> FALSE],
      [name |-> "bare",     input_schema |-> FALSE, entrypoint |-> FALSE] }

\* get_tool_spec
get_tool_spec(registry, tool_name) == {t \in registry : t.name = tool_name}

\* ok(tool, result)
ok(tool, res) == [ok |-> TRUE, tool |-> tool, result |-> res]

\* err(tool, err_type, message)
err(tool, err_type, msg) ==
    [ok |-> FALSE, tool |-> tool, type |-> err_type, message |-> msg]

\* json.dumps(out, ensure_ascii=False) keeps a lone surrogate as it is, and
\* sys.stdout.write raises UnicodeEncodeError on it.
Encodable(out) ==
    /\ out.tool # Surrogate
    /\ out.ok => out.result # Surrogate

\* sys.stdout.write(json.dumps(out)) inside the try of main(): when the write
\* raises, the handler of the try writes err(tool_name, "invalid_request", ...),
\* and when that write raises too the exception leaves main(): nothing is
\* written and the interpreter exits with code 1.
Emitted(out) ==
    IF Encodable(out) THEN [out |-> <<out>>, code |-> 0]
    ELSE LET again == err(out.tool, "invalid_request", "UnicodeEncodeError")
         IN  IF Encodable(again) THEN [out |-> <<again>>, code |-> 0]
                                 ELSE [out |-> <<>>, code |-> 1]

rnFrame ==
    /\ RunUnchanged
    /\ UNCHANGED <<artVars, sbVars, aggVars, wsVars, pjVars, amVars, dtVars, tsVars,
                   ftVars, wfVars>>

\* The process ends: what it wrote and its exit code.
Exits(e) ==
    /\ rn_out' = rn_out \o e.out
    /\ rn_exit' = e.code
    /\ rn_pc' = "exited"

Goes(to) ==
    /\ rn_pc' = to
    /\ UNCHANGED <<rn_out, rn_exit>>

\* raw = sys.stdin.read().strip(); if not raw
ReadRequest ==
    /\ rn_pc = "read"
    /\ IF rn_request.raw = "empty"
       THEN Exits(Emitted(err(NoTool, "invalid_request", "No JSON input provided")))
       ELSE Goes("parse")
    /\ UNCHANGED <<rn_request, rn_registry, rn_started>>
    /\ rnFrame

\* json.loads, the object test and the test of the tool name; what they raise
\* reaches the handler of the try.
ParseRequest ==
    /\ rn_pc = "parse"
    /\ IF rn_request.raw # "object"
       THEN Exits(Emitted(err(NoTool, "invalid_request", rn_request.raw)))
       ELSE IF rn_request.tool \in {NoTool, ""}
            THEN Exits(Emitted(err(rn_request.tool, "invalid_request",
                                   "tool is required and must be string")))
            ELSE Goes("lookup")
    /\ UNCHANGED <<rn_request, rn_registry, rn_started>>
    /\ rnFrame

\* spec = get_tool_spec(tool_name); if not spec
LookupTool ==
    /\ rn_pc = "lookup"
    /\ IF get_tool_spec(rn_registry, rn_request.tool) = {}
       THEN Exits(Emitted(err(rn_request.tool, "tool_not_found", "Tool not found in registry")))
       ELSE Goes("schema")
    /\ UNCHANGED <<rn_request, rn_registry, rn_started>>
    /\ rnFrame

\* schema = spec.get("input_schema"); if not isinstance(schema, dict)
CheckSchema ==
    /\ rn_pc = "schema"
    /\ \E spec \in get_tool_spec(rn_registry, rn_request.tool) :
         IF ~spec.input_schema
         THEN Exits(Emitted(err(rn_request.tool, "invalid_tool_spec",
                                "Tool is missing input_schema")))
         ELSE Goes("validate")
    /\ UNCHANGED <<rn_request, rn_registry, rn_started>>
    /\ rnFrame

\* validate_input(input_data, schema) and its two except branches
ValidateInput ==
    /\ rn_pc = "validate"
    /\ IF rn_request.input # "valid"
       THEN Exits(Emitted(err(rn_request.tool, "input_validation_error", rn_request.input)))
       ELSE Goes("entrypoint")
    /\ UNCHANGED <<rn_request, rn_registry, rn_started>>
    /\ rnFrame

\* entrypoint = spec.get("entrypoint"); if not isinstance(entrypoint, str) ...
CheckEntrypoint ==
    /\ rn_pc = "entrypoint"
    /\ \E spec \in get_tool_spec(rn_registry, rn_request.tool) :
         IF ~spec.entrypoint
         THEN Exits(Emitted(err(rn_request.tool, "invalid_tool_spec",
                                "Tool is missing entrypoint")))
         ELSE Goes("run")
    /\ UNCHANGED <<rn_request, rn_registry, rn_started>>
    /\ rnFrame

\* run_tool(entrypoint, input_data) and what follows it: the file of the
\* entry point is absent (nothing is started), or the subprocess runs into the
\* timeout, fails, or prints a result, which may hold a lone surrogate.
RunTool ==
    /\ rn_pc = "run"
    /\ \E outcome \in {"absent", "timeout", "failed", "result", Surrogate} :
         /\ rn_started' = IF outcome = "absent" THEN rn_started ELSE rn_started + 1
         /\ Exits(Emitted(
              CASE outcome = "absent"  -> err(rn_request.tool, "tool_execution_error",
                                              "Tool entrypoint not found")
                [] outcome = "timeout" -> err(rn_request.tool, "timeout",
                                              "Tool exceeded timeout")
                [] outcome = "failed"  -> err(rn_request.tool, "tool_execution_error",
                                              "Tool failed")
                [] OTHER               -> ok(rn_request.tool, outcome)))
    /\ UNCHANGED <<rn_request, rn_registry>>
    /\ rnFrame

RnInit ==
    /\ RunIdle
    /\ ArtIdle /\ SbIdle /\ AggIdle /\ WsIdle /\ PjIdle /\ AmIdle /\ DtIdle
    /\ TsIdle /\ FtIdle /\ WfIdle
    /\ rn_pc = "read"
    /\ rn_request \in Requests
    /\ rn_registry \in {{}, Tools}
    /\ rn_out = <<>>
    /\ rn_exit = -1
    /\ rn_started = 0

RnNext ==
    \/ ReadRequest
    \/ ParseRequest
    \/ LookupTool
    \/ CheckSchema
    \/ ValidateInput
    \/ CheckEntrypoint
    \/ RunTool

SpecRunner == RnInit /\ [][RnNext]_vars

\* The request passes the checks of main() in their order.
PassesChecks(request, registry) ==
    /\ request.raw = "object"
    /\ request.tool \notin {NoTool, ""}
    /\ get_tool_spec(registry, request.tool) # {}
    /\ \A spec \in get_tool_spec(registry, request.tool) : spec.input_schema
    /\ request.input = "valid"
    /\ \A spec \in get_tool_spec(registry, request.tool) : spec.entrypoint

ErrorTypes == {"invalid_request", "tool_not_found", "invalid_tool_spec",
               "input_validation_error", "timeout", "tool_execution_error"}

\* ================================================================== claims
Last(s) == s[Len(s)]

\* run() logged step2_error, step3_error or step4_error
StageErrorLogged ==
    \E i \in 1..Len(log) : log[i] \in {"step2_error", "step3_error", "step4_error"}

Step1ErrorLogged == \E i \in 1..Len(log) : log[i] = "step1_error"

NoApprove == \A i \in 1..Len(cycle_summaries) : cycle_summaries[i].verdict # "approve"

\* C1: at most max_cycles CycleSummaries are recorded, a CycleSummary with
\* verdict approve is the last one, and a returned RunResult carries exactly
\* the recorded sequence.
C1_SummariesBounded ==
    /\ Len(cycle_summaries) <= max_cycles
    /\ \A i \in 1..Len(cycle_summaries) :
         cycle_summaries[i].verdict = "approve" => i = Len(cycle_summaries)
    /\ (pc = "returned" /\ "cycle_summaries" \in DOMAIN result)
         => result.cycle_summaries = cycle_summaries

\* A run approved in cycle 1 of 2 has returned with one CycleSummary.
C1_Witness ==
    /\ pc = "returned"
    /\ max_cycles = 2
    /\ Len(cycle_summaries) = 1
    /\ cycle_summaries[1].verdict = "approve"

\* C2: when the Implementation, Test or Review stage raised, the run returns
\* the CycleSummaries recorded so far and its status is error.
C2_StageErrorGivesError ==
    (pc = "returned" /\ StageErrorLogged)
        => /\ result.status = "error"
           /\ result.cycle_summaries = cycle_summaries

\* C3: run() returns a RunResult; no exception escapes it.
C3_NoExceptionEscapes == pc # "raised"

\* C4: once a review has approved, no further stage is invoked, and the run
\* returns status approved with the cycle count of the approving cycle.
C4_ApproveEndsRun ==
    /\ verdict = "approve" =>
         /\ pc \in {"finish", "returned"}
         /\ cycle = Len(cycle_summaries)
         /\ invoked.step2 = cycle /\ invoked.step3 = cycle /\ invoked.step4 = cycle
    /\ (pc = "returned" /\ verdict = "approve") =>
         /\ result.status = "approved"
         /\ result.cycles = Last(cycle_summaries).cycle
         /\ result.cycles = Len(cycle_summaries)

\* The review of cycle 1 approved while a second cycle was allowed.
C4_Witness ==
    /\ pc = "returned"
    /\ verdict = "approve"
    /\ result.cycles = 1
    /\ max_cycles = 2

\* C5: a run in which no stage raised and no review approved has run and
\* summarized exactly max_cycles cycles and returns status changes_required
\* with cycle count max_cycles.
C5_ExhaustedIsChangesRequired ==
    (pc = "returned" /\ ~Step1ErrorLogged /\ ~StageErrorLogged /\ NoApprove)
        => /\ Len(cycle_summaries) = max_cycles
           /\ result.status = "changes_required"
           /\ result.cycles = max_cycles

\* C6 as claimed: whenever the Spec Stage raised, the run returns error with
\* cycle count 0, no testdata/ or expected/ artifact exists and no later
\* stage was invoked.
C6_AnyStep1ErrorWritesNothing ==
    (pc = "returned" /\ Step1ErrorLogged)
        => /\ result.status = "error"
           /\ result.cycles = 0
           /\ proj.testdata = {} /\ proj.expected = {}
           /\ invoked.step2 = 0 /\ invoked.step3 = 0 /\ invoked.step4 = 0

\* C6: whenever the Spec Stage raised, the run returns error with cycle count
\* 0 and no later stage is invoked; when it raised because the Generation
\* Service call failed or its text was unparseable, no testdata/ or expected/
\* artifact exists.
C6_Step1ErrorAborts ==
    /\ Step1ErrorLogged =>
         /\ pc = "returned"
         /\ result.status = "error"
         /\ result.cycles = 0
         /\ invoked.step2 = 0 /\ invoked.step3 = 0 /\ invoked.step4 = 0
    /\ spec_raw \in {"raise", "unparseable"} =>
         /\ Step1ErrorLogged
         /\ proj.testdata = {} /\ proj.expected = {}

\* The run has returned after an unparseable Spec Stage response.
C6_Witness ==
    /\ pc = "returned"
    /\ spec_raw = "unparseable"
    /\ result.status = "error"

\* C7: a cycle whose review was unparseable is summarized with verdict
\* changes_required and a non-empty required-changes list; it does not end
\* the loop before max_cycles and the run does not return approved on it.
C7_UnparseableReviewNeverApproves ==
    \A i \in 1..Len(cycle_summaries) :
        cycle_summaries[i].summary = "Review-parse-fel" =>
            /\ cycle_summaries[i].verdict = "changes_required"
            /\ cycle_summaries[i].required_changes # <<>>
            /\ (i = Len(cycle_summaries) /\ pc = "returned")
                 => result.status # "approved"
            /\ (i = Len(cycle_summaries) /\ pc \in {"finish", "returned"}
                  /\ ~StageErrorLogged)
                 => i = max_cycles

\* The review of cycle 1 was unparseable and cycle 2 was run and summarized.
C7_Witness ==
    /\ pc = "returned"
    /\ Len(cycle_summaries) = 2
    /\ cycle_summaries[1].summary = "Review-parse-fel"

\* C8: one Implementation Stage invocation issues at most MAX_ZACK_QUESTIONS
\* clarifier calls.
C8_AtMostMaxClarifications == micke_calls <= MAX_ZACK_QUESTIONS

\* C9: in a fix-mode invocation the clarifier is never called and no
\* amendment is appended to SPEC.md: the file is as the stage read it, or as
\* the implementer's own "files" set it.
C9_FixModeNeverAsks ==
    is_fix =>
        /\ pc # "micke_answer"
        /\ micke_calls = 0
        /\ spec_updates = 0
        /\ proj.SPEC \in {spec_md, <<ZackText>>}

\* A fix-mode invocation has returned after a response that carried questions.
C9_Witness ==
    /\ is_fix
    /\ pc = "step3"
    /\ questions > 0

\* C10 as claimed: before the next implementer call, every question of the
\* previous response has exactly one answer.
C10_EveryQuestionAnsweredOnce ==
    (pc = "zack_call" /\ attempt >= 1)
        => \A k \in 1..questions : Count(answers, k) = 1

\* C10: before the next implementer call, each of the first
\* MAX_ZACK_QUESTIONS questions of the previous response has exactly one
\* answer and the questions after them have none.
C10_FirstQuestionsAnsweredOnce ==
    (pc = "zack_call" /\ attempt >= 1)
        => \A k \in 1..questions :
              Count(answers, k) = (IF k <= MAX_ZACK_QUESTIONS THEN 1 ELSE 0)

\* The next implementer call is due after a response with more than
\* MAX_ZACK_QUESTIONS questions.
C10_Witness ==
    /\ pc = "zack_call"
    /\ attempt >= 1
    /\ questions > MAX_ZACK_QUESTIONS
    /\ Len(answers) = MAX_ZACK_QUESTIONS

\* ------------------------------------------------------------ C11 .. C12
\* run() is sequential: whenever the call it waits for has returned or raised
\* it takes its next step.
FairSpec == Spec /\ WF_vars(Next)

InStep2 == pc \in {"zack_call", "micke_answer"}

\* C11: every run eventually reaches a terminal state of the Cycle
\* Controller, in which run() has returned its RunResult (APPROVED, EXHAUSTED
\* or ABORTED), and every Implementation Stage invocation eventually ends.
C11_EveryRunTerminates ==
    /\ <>(pc = "returned")
    /\ InStep2 ~> ~InStep2

Step3ErrorLogged == \E i \in 1..Len(log) : log[i] = "step3_error"

\* C15: a Test Stage whose judgment was unparseable returned empty
\* test_results and bugs with the parse error as summary, wrote TESTREPORT.md,
\* did not raise, and the review of the same cycle is the next stage invoked.
C15_UnparseableJudgmentDegrades ==
    (test_data.summary = "Parse-fel" /\ ~Step3ErrorLogged) =>
        /\ test_data.test_results = <<>>
        /\ test_data.bugs = <<>>
        /\ proj.TESTREPORT = [tests |-> 0, passed |-> 0, summary |-> "Parse-fel"]
        /\ invoked.step3 >= 1
        /\ IF pc = "step4" THEN invoked.step4 = invoked.step3 - 1
                           ELSE invoked.step4 = invoked.step3

\* The run has returned after the review that followed an unparseable judgment.
C15_Witness ==
    /\ pc = "returned"
    /\ test_data.summary = "Parse-fel"
    /\ invoked.step4 = invoked.step3
    /\ Len(cycle_summaries) = invoked.step3

\* C18: a returned RunResult has status approved, changes_required or error,
\* and approved exactly when the last recorded CycleSummary has verdict approve.
C18_StatusMatchesLastVerdict ==
    pc = "returned" =>
        /\ result.status \in {"approved", "changes_required", "error"}
        /\ result.status = "approved"
             <=> (cycle_summaries # <<>> /\ Last(cycle_summaries).verdict = "approve")

\* A run returned after a review with a verdict that is neither approve nor
\* changes_required.
C18_Witness ==
    /\ pc = "returned"
    /\ cycle_summaries # <<>>
    /\ Last(cycle_summaries).verdict = "reject"
    /\ result.status = "error"

\* C20: a run whose last Test Stage reported a blocker does not return
\* status approved.
C20_BlockerNeverApproved ==
    (pc = "returned" /\ \E i \in 1..Len(test_data.bugs) : test_data.bugs[i] = "blocker")
        => result.status # "approved"

\* C13: after the Spec Stage succeeds, for every TestCase of the response the
\* artifacts testdata/<id>.json and expected/<id>.json read back equal that
\* TestCase's input and expected-output payload, for every payload kind and
\* every list of TestCases, including shared and missing identifiers.
C13_ArtifactsRoundTrip ==
    art_pc = "done" =>
        \A i \in 1..Len(testcases) :
            /\ ReadsBack(<<"testdata", tc_id(testcases[i])>>, testcases[i].input)
            /\ ReadsBack(<<"expected", tc_id(testcases[i])>>,
                         testcases[i].expected_output)

\* C14: the Sandbox Runner never raises to its caller; an absent entry point
\* (no subprocess started), an exceeded timeout and a launch failure each
\* give success = false and a message no other of these causes gives; and
\* success is true only when the process ended in time with exit code 0.
C14_SandboxRunnerNeverRaises ==
    /\ sb_pc # "raised"
    /\ sb_pc = "returned" =>
        /\ Cause = "absent" =>
             /\ subprocess_runs = 0
             /\ run_result = Failed(AbsentMessage(code_path.path))
        /\ Cause = "timeout" => run_result = Failed(TimeoutMessage(timeout))
        /\ Cause = "launch" => run_result = Failed(proc.text)
        /\ Cause # "none" =>
             /\ ~run_result.success
             /\ run_result.stderr.len > 0
             /\ { c \in {"absent", "timeout", "launch"} :
                    run_result.stderr.text \in MessagesOf(c) } = {Cause}
        /\ run_result.success <=>
             (code_path.exists /\ subprocess_runs = 1 /\ proc.raises = "none"
                /\ proc.returncode = 0)

C14_Witness ==
    /\ sb_pc = "returned"
    /\ Cause = "timeout"
    /\ run_result = Failed(TimeoutMessage(CODE_RUN_TIMEOUT))
    /\ subprocess_runs = 1

ReportedTestCases ==
    SelectSeq(FileAt(agg_files, SummaryPath), LAMBDA l : l[1] = "- testcase")

\* The TestResults of the last CycleSummary that carry the identifier id.
LastResultsFor(id) ==
    LET trs == agg_args.cycle_summaries[Len(agg_args.cycle_summaries)].test_results
    IN  {k \in DOMAIN trs : trs[k].tc_id = id}

\* C17: for each TestCase of the specification the Result Aggregator reports
\* the pass/fail flag of the TestResult with the same identifier in the last
\* CycleSummary, and 'unknown' (not 'fail') when the last CycleSummary has no
\* TestResult for it; results of earlier cycles are never used.
C17_ReportsLastCycleFlag ==
    agg_calls >= 1 =>
        LET tcs == agg_args.spec_data.testcases
            trs == agg_args.cycle_summaries[Len(agg_args.cycle_summaries)].test_results
        IN  /\ Len(ReportedTestCases) = Len(tcs)
            /\ \A i \in DOMAIN tcs :
                 LET hits == LastResultsFor(tcs[i].id)
                     mark == ReportedTestCases[i][2]
                 IN  /\ hits = {} => mark = "?"
                     /\ hits # {} =>
                          /\ mark \in {"pass", "fail"}
                          /\ \E k \in hits : mark = (IF trs[k].pass THEN "pass" ELSE "fail")
                          /\ (\A k \in hits : trs[k].pass) => mark = "pass"
                          /\ (\A k \in hits : ~trs[k].pass) => mark = "fail"
                          /\ mark = (IF trs[CHOOSE k \in hits : \A m \in hits : m <= k].pass
                                     THEN "pass" ELSE "fail")

C17_Witness ==
    /\ agg_calls >= 1
    /\ Len(agg_args.cycle_summaries) >= 2
    /\ agg_args.cycle_summaries[1].test_results = <<[tc_id |-> "TC-001", pass |-> TRUE]>>
    /\ \E i \in DOMAIN agg_args.spec_data.testcases :
         /\ agg_args.spec_data.testcases[i].id = "TC-001"
         /\ LastResultsFor("TC-001") = {}
         /\ ReportedTestCases[i] = <<"- testcase", "?", "TC-001">>
    /\ \E i \in DOMAIN agg_args.spec_data.testcases :
         /\ agg_args.spec_data.testcases[i].id = "TC-002"
         /\ ReportedTestCases[i] = <<"- testcase", "pass", "TC-002">>

\* C19: two runs started without a feat_id never use the same Workspace
\* directory, also when both are in flight at the same time; consequently no
\* run reads or overwrites an artifact written by another run.
C19_RunsNeverShareWorkspace ==
    /\ \A r1, r2 \in Runs :
         (r1 # r2 /\ runs[r1].pc # "idle" /\ runs[r2].pc # "idle")
             => runs[r1].feat_id # runs[r2].feat_id
    /\ \A r \in Runs : runs[r].pc = "returned" => runs[r].spec_from = r

\* C21: for every text that holds exactly one well-formed record, bare or in
\* a fenced block, between arbitrary prose (prose that may contain brace
\* characters), the extraction returns that record; for a text with no record
\* it raises a parse error instead of returning a value.
C21_ExtractionReturnsTheRecord ==
    pj_pc = "done" =>
        IF record # <<>> THEN parsed = [raised |-> "none", value |-> record]
                         ELSE parsed.raised # "none"

\* C22 as stated: in agent mode a user message that is a negative word (any
\* case, surrounding whitespace ignored) produces exactly one reply, the stop
\* message, invokes neither the planner nor a tool, appends the user message
\* and the stop message to the history, the stop message last, and persists
\* the session.
C22_NegativeMessageStops ==
    (am_pc = "done" /\ session.mode = "agent" /\ message \in NegativeMessages)
        => (StoppedWith(message) \/ StoppedWith(Strip(message)))

\* C22 as the code has it: the same holds of every negative word that
\* _handle_agent_mode receives; through on_message only the negative words
\* that are not cancel words reach it.
C22_NegativeWordInHandlerStops ==
    /\ (am_pc = "done" /\ handler_entered /\ message \in NegativeMessages)
          => StoppedWith(am_text)
    /\ (am_pc = "done" /\ session.mode = "agent" /\ message \in NegativeMessages
          /\ Lower(Strip(message)) \notin CANCEL_WORDS)
          => handler_entered

C22_Witness ==
    /\ am_pc = "done"
    /\ message = " NEJ "
    /\ am_text = "NEJ"
    /\ handler_entered
    /\ StoppedWith("NEJ")
    /\ Len(session.history) = HistoryLimit
    /\ session.history[1] = Entry("user", "old")

\* C23: for a message with run intent that names a registered tool the direct
\* call returns a named tool with a payload holding exactly the properties
\* that declare a default, each at its default unless the text asks to show
\* the browser (headless false) or to save a file (write_file true), an
\* explicit headless=true or write_file=false winning; any other message
\* yields no direct call.
C23_DirectCallUsesDefaultsAndOverrides ==
    dt_pc = "done" =>
        LET t == LowerText(dt_text)
        IN  IF ~_has_run_intent(t) \/ Named(t) = {}
            THEN direct_call = NoCall
            ELSE \E i \in Named(t) :
                   /\ direct_call.name = tools[i].name
                   /\ Len(direct_call.payload) = Cardinality(Defaulted(tools[i]))
                   /\ \A prop \in Defaulted(tools[i]) :
                        /\ DictHas(direct_call.payload, prop.key)
                        /\ DictGet(direct_call.payload, prop.key) = PayloadValue(prop, t)

C23_Witness ==
    /\ dt_pc = "done"
    /\ dt_text = <<"Start", "cars_lookup", "visa", "spara", "headless=true",
                   "write_file=false">>
    /\ direct_call = [name |-> "cars_lookup",
                      payload |-> << [key |-> "headless", value |-> TRUE],
                                     [key |-> "write_file", value |-> FALSE] >>]

\* C24: the Spec Stage is invoked exactly once and before any cycle; in each
\* cycle Implementation, Test and Review are invoked at most once and in that
\* order; no stage of the next cycle starts before the Review of the cycle has
\* returned; after a stage has failed no stage is invoked any more.
C24_StagesInStrictSequence ==
    /\ [](/\ invoked.step1 = (IF pc = "step1" THEN 0 ELSE 1)
          /\ cycle > 0 => invoked.step1 = 1
          /\ invoked.step2 = cycle
          /\ invoked.step3 <= invoked.step2
          /\ invoked.step4 <= invoked.step3
          /\ invoked.step2 <= Len(cycle_summaries) + 1
          /\ Len(cycle_summaries) <= invoked.step4
          /\ pc \in {"zack_call", "micke_answer", "step3"}
                => invoked.step3 = cycle - 1 /\ invoked.step4 = cycle - 1
          /\ pc = "step4" => invoked.step3 = cycle /\ invoked.step4 = cycle - 1)
    /\ [][(\E i \in DOMAIN log :
             log[i] \in {"step1_error", "step2_error", "step3_error", "step4_error"})
             => invoked' = invoked]_vars

C24_Witness ==
    /\ pc = "returned"
    /\ cycle = 2
    /\ invoked = [step1 |-> 1, step2 |-> 2, step3 |-> 2, step4 |-> 2]
    /\ Len(cycle_summaries) = 2

\* C25: the Implementation Stage runs in initial mode in cycle 1 and in fix
\* mode in every later cycle, and the required-changes list it receives in
\* cycle n > 1 is the list the Review Stage of cycle n-1 returned, the one in
\* that cycle's CycleSummary.
C25_FixModeReceivesLastReviewChanges ==
    pc \in {"zack_call", "micke_answer", "step3"} =>
        /\ is_fix = (cycle > 1)
        /\ cycle = 1 => step2_required_changes = <<>>
        /\ cycle > 1 =>
             /\ Len(cycle_summaries) = cycle - 1
             /\ cycle_summaries[cycle - 1].cycle = cycle - 1
             /\ step2_required_changes = cycle_summaries[cycle - 1].required_changes

C25_Witness ==
    /\ pc = "zack_call"
    /\ cycle = 2
    /\ is_fix
    /\ step2_required_changes = <<"fix">>
    /\ cycle_summaries[1].required_changes = <<"fix">>

C27_ExhaustedChangesNothing ==
    Exhausted => proj = proj_at_call

\* C27 as the code has it: every artifact but SPEC.md is as it was, and
\* SPEC.md is its earlier content followed by the amendments of the answers.
C27_ExhaustedChangesOnlySpec ==
    Exhausted =>
        /\ attempt = MAX_ZACK_QUESTIONS + 1
        /\ [proj EXCEPT !.SPEC = proj_at_call.SPEC] = proj_at_call
        /\ proj.src = proj_at_call.src
        /\ proj.SPEC = proj_at_call.SPEC \o [i \in 1..spec_updates |-> Amendment]

C27_Witness ==
    /\ Exhausted
    /\ spec_updates = 1
    /\ proj.SPEC = <<SpecText, Amendment>>
    /\ proj_at_call.SPEC = <<SpecText>>
    /\ proj.src = {}

\* C28 as stated: after an unparseable implementer response the stage makes
\* no further Generation Service call, writes no source artifact and returns
\* without raising, and the Cycle Controller still runs the Test and the
\* Review Stage of the same cycle.
C28_ParseErrorStillTestedAndReviewed ==
    /\ [](ParseErrorEnd => pc = "step3" /\ proj.src = proj_at_call.src)
    /\ \A c \in 1..MaxCycles :
         (ParseErrorEnd /\ cycle = c) ~> (invoked.step4 = c)

\* C28 as the code has it: the stage returns to run() without raising and
\* with the source artifacts as they were, the next call is the Test Stage of
\* the same cycle, and the Review Stage of that cycle is called when the Test
\* Stage returns; a Test Stage that raises ends the run without Review.
C28_ParseErrorGoesOnToTest ==
    /\ [](ParseErrorEnd =>
            /\ pc = "step3"
            /\ proj.src = proj_at_call.src
            /\ \A i \in DOMAIN log : log[i] # "step2_error")
    /\ [][ParseErrorEnd =>
            /\ invoked' = [invoked EXCEPT !.step3 = @ + 1]
            /\ cycle' = cycle
            /\ micke_calls' = 0 /\ attempt' = 0
            /\ \/ pc' = "step4"
               \/ pc' = "finish" /\ log' = Append(log, "step3_error")]_vars
    /\ [][pc = "step4" =>
            /\ invoked' = [invoked EXCEPT !.step4 = @ + 1]
            /\ cycle' = cycle]_vars

C28_Witness ==
    /\ ParseErrorEnd
    /\ pc = "step3"
    /\ attempt = 2
    /\ micke_calls > 0
    /\ proj.src = {}

\* C29: when src/main.py is absent at the Test Stage, every test case is
\* reported as failing: no TestResult of that cycle has pass = true and the
\* passed count of its CycleSummary is 0.  (The Workspace never loses
\* src/main.py, so while it is absent it was absent at every Test Stage.)
C29_NoImplementationAllFail ==
    proj.src = {} =>
        /\ pc = "step4" => Count(test_data.test_results, TRUE) = 0
        /\ \A i \in DOMAIN cycle_summaries :
             /\ cycle_summaries[i].passed = 0
             /\ Count(cycle_summaries[i].test_results, TRUE) = 0

\* C30: once the Spec Stage has written SPEC.md, every later content of it
\* has every earlier content as a prefix: no attempt, stage or cycle removes
\* or overwrites an amendment.
C30_SpecOnlyGrows ==
    [][proj.SPEC # <<>> => IsPrefix(proj.SPEC, proj.SPEC')]_vars

\* C31: in one Test Stage invocation every persisted TestCase is run by the
\* Sandbox Runner exactly once, one run at a time, and exactly one Generation
\* Service call is made, after the last run has returned, also when there
\* are no TestCases.
C31_EveryTestCaseRunOnceThenOneCall ==
    /\ \A f \in testdata_dir : run_counts[f] <= 1
    /\ johan_calls <= 1
    /\ johan_calls = 1 => ts_pc = "done" /\ ts_pending = <<>>
    /\ ts_pc = "done" =>
         /\ johan_calls = 1
         /\ \A f \in testdata_dir : run_counts[f] = 1

\* C32: every CycleSummary whose verdict is not approve has a non-empty
\* required-changes list, and every RunResult with status changes_required
\* carries a non-empty required_changes list.
C32_NotApprovedNamesChanges ==
    /\ \A i \in DOMAIN cycle_summaries :
         cycle_summaries[i].verdict # "approve"
            => cycle_summaries[i].required_changes # <<>>
    /\ (pc = "returned" /\ result.status = "changes_required")
            => result.required_changes # <<>>

\* C33: in initial mode the prompt of every implementer Generation Service
\* call holds the specification exactly as it is persisted at the time of
\* the call, amendments of earlier clarification answers included.
C33_PromptHoldsPersistedSpec ==
    (pc = "zack_call" /\ ~is_fix) => PromptSpec = proj.SPEC

\* C34: the chat front end checks the chat's cancellation flag between the
\* stages of a feature run: once a cancel request has been made while the run
\* is in progress, no further stage of that run is started.
C34_NoStageAfterCancel ==
    [][(feat_pc = "running" /\ (FeatChat \in update_queue \/ FeatChat \in cancel_flags))
          => stages_started' = stages_started]_vars


\* The CycleSummaries a RunResult carries (_result builds none).
SummariesOf(r) ==
    IF "cycle_summaries" \in DOMAIN r THEN r.cycle_summaries ELSE <<>>

\* C35: in every RunResult that run() returns, the cycle count equals the
\* number of recorded CycleSummaries, and the i-th CycleSummary carries cycle
\* index i with 0 <= passed <= total.
C35_CycleCountIsSummaryCount ==
    pc = "returned" =>
        /\ result.cycles = Len(SummariesOf(result))
        /\ \A i \in 1..Len(SummariesOf(result)) :
              /\ SummariesOf(result)[i].cycle = i
              /\ 0 <= SummariesOf(result)[i].passed
              /\ SummariesOf(result)[i].passed <= SummariesOf(result)[i].total


\* C36: at every Review Stage invocation the bug artifacts under bugs/ are
\* exactly the Bugs the Test Stage of the same cycle reported, and the bug
\* files of the RunResult are those of the last executed cycle.
C36_BugFilesAreThisCyclesBugs ==
    /\ pc = "step4" => proj.bugs = BugFiles(test_data.bugs)
    /\ pc = "returned" => result.bug_files = BugFiles(test_data.bugs)


\* C37: every file the Spec, Implementation or Test stage writes lies inside
\* the Workspace of the run, whatever path or identifier was returned.
C37_WritesStayInWorkspace ==
    \A t \in wf_written : IsPrefix(Proj, t)


\* C38: the session persisted when the handling of a message in LLM mode or
\* agent mode has ended holds at most 40 history entries, whichever way the
\* handler ended.
C38_PersistedHistoryAtMostForty ==
    (am_pc = "done" /\ saves > 0) => Len(saved_history) <= HistoryLimit


\* C39: for every request the tool runner writes exactly one envelope (ok
\* with a result, or not ok with a typed error) and exits with code 0, and a
\* tool subprocess is started only for a request that passed every check.
C39_OneEnvelopeAndChecksBeforeRun ==
    /\ rn_pc = "exited" =>
         /\ Len(rn_out) = 1
         /\ rn_exit = 0
         /\ ~rn_out[1].ok => rn_out[1].type \in ErrorTypes
    /\ rn_started > 0 => PassesChecks(rn_request, rn_registry)

====
